---- MODULE Spec2Model ----
\* Incremental-processing planner of arcana/nianalysis: BaseProcessor.run,
\* BaseProcessor._connect_to_repository and BaseProcessor._to_process
\* (src/arcana/processor/base.py), over a repository tree of subjects, visits
\* and sessions whose derived items carry an `exists` flag.
EXTENDS Integers, Sequences, FiniteSets, TLC

\* ------------------------------------------------------------------ bounds
\* Subjects and visits of the trees the incompleteness calculator is run on.
NumSubjects == 2
NumVisits == 2
\* Largest number of derived items that are absent from the repository of a
\* run, unless all are.
MaxMissing == 4
\* The same for the repository of a direct call of _to_process.
MaxAbsent == 3
\* The run calls made on one study.
MaxRuns == 2
\* The repository objects and the __enter__ calls made on each of them.
NumRepositories == 2
MaxEnters == 4
\* The DarisSession objects, the with-blocks, the direct run calls and the
\* additions of each, and the largest id an addition may take.
NumSessions == 2
MaxWith == 1
MaxCommands == 1
MaxAdds == 1
MaxId == 2

VARIABLES
    store,              \* the repository: whether the derived item <<name, subject_id, visit_id>> is in it
    study,              \* the study's caches: its bound specs, the repository's cached tree, the run call
    _reprocess,         \* self._reprocess of the processor: "False", "True" or "all"
    tree,               \* study.tree: the sessions <<subject_id, visit_id>> of the repository
    exists,             \* item.exists of the items of study.spec(name).collection
    tp,                 \* one direct call of _to_process and what it gave
    run_args,           \* run(*pipelines, subject_ids=..., visit_ids=...)
    run_pc,             \* position of run: "loop", "raised" or "executed"
    run_idx,            \* index of run's `for pipeline in pipelines`
    results,            \* what each _connect_to_repository call of the loop gave
    already_connected,  \* the dict of one run: entries name, (pipeline, report)
    workflow,           \* complete_workflow: nodes, iterables and connections
    stack,              \* the frames of the recursive _connect_to_repository calls
    ret,                \* what the call that just ended returned or raised
    log,                \* logger.info messages of the NoRunRequired handlers
    call,               \* one call of Study.data or of the resolution of a name
    repository,         \* a BaseRepository used as a context manager
    daris,              \* the DarisSession objects
    server              \* the DaRIS server the sessions talk to

planner_vars == <<store, study, _reprocess, tree, exists, tp, run_args, run_pc,
                  run_idx, results, already_connected, workflow, stack, ret,
                  log>>

vars == <<store, study, _reprocess, tree, exists, tp, run_args, run_pc, run_idx, results,
          already_connected, workflow, stack, ret, log, call, repository, daris,
          server>>

\* ------------------------------------------------------------ plain values
\* subject_ids=None / visit_ids=None is the empty option, a list of ids is the
\* option holding the set of its ids.
None == {}
Some(ids) == {ids}

\* `subject_ids is None or item.subject_id in subject_ids`
Passes(ids, id) == ids = None \/ \E f \in ids : id \in f

Range(s) == {s[i] : i \in 1..Len(s)}

\* ------------------------------------------------------------ the study
\* The derived data specs of the study and their frequencies.
Frequency ==
    [o \in {"a", "a_alt", "b", "c", "d", "p_x", "p_y",
            "m_sess", "m_subj", "m_vis", "m_study", "x", "y", "z", "g",
            "n", "q", "r"} |->
        CASE o = "m_subj" -> "per_subject"
          [] o = "m_vis" -> "per_visit"
          [] o = "m_study" -> "per_study"
          [] OTHER -> "per_session"]

\* The pipeline objects of the study. A and A2 are two different pipelines
\* that carry the same name; D needs B and C, which both need A. X reads the
\* acquired scan, Y, Z and G write y, z and g; G has no input; N reads the
\* acquired mask and the acquired atlas, Q needs N and R needs Q.
PipelineDefs ==
    [k \in {"A", "A2", "B", "C", "D", "M", "P2", "Subj", "Vis", "Stud",
            "X", "Y", "Z", "G", "N", "Q", "R"} |->
        CASE k = "A" -> [name |-> "A", inputs |-> <<"raw">>,
                         outputs |-> <<"a">>, prerequisites |-> <<>>]
          [] k = "A2" -> [name |-> "A", inputs |-> <<"raw">>,
                          outputs |-> <<"a_alt">>, prerequisites |-> <<>>]
          [] k = "B" -> [name |-> "B", inputs |-> <<"a">>,
                         outputs |-> <<"b">>, prerequisites |-> <<"A">>]
          [] k = "C" -> [name |-> "C", inputs |-> <<"a">>,
                         outputs |-> <<"c">>, prerequisites |-> <<"A">>]
          [] k = "D" -> [name |-> "D", inputs |-> <<"b", "c">>,
                         outputs |-> <<"d">>, prerequisites |-> <<"B", "C">>]
          [] k = "M" -> [name |-> "M", inputs |-> <<"raw">>,
                         outputs |-> <<"m_sess", "m_subj", "m_vis", "m_study">>,
                         prerequisites |-> <<>>]
          [] k = "P2" -> [name |-> "P2", inputs |-> <<"raw">>,
                          outputs |-> <<"p_x", "p_y">>, prerequisites |-> <<>>]
          [] k = "Subj" -> [name |-> "Subj", inputs |-> <<"raw">>,
                            outputs |-> <<"m_subj">>, prerequisites |-> <<>>]
          [] k = "Vis" -> [name |-> "Vis", inputs |-> <<"raw">>,
                           outputs |-> <<"m_vis">>, prerequisites |-> <<>>]
          [] k = "X" -> [name |-> "X", inputs |-> <<"raw", "scan">>,
                         outputs |-> <<"x">>, prerequisites |-> <<>>]
          [] k = "Y" -> [name |-> "Y", inputs |-> <<"raw">>,
                         outputs |-> <<"y">>, prerequisites |-> <<>>]
          [] k = "Z" -> [name |-> "Z", inputs |-> <<"y">>,
                         outputs |-> <<"z">>, prerequisites |-> <<"Y">>]
          [] k = "G" -> [name |-> "G", inputs |-> <<>>,
                         outputs |-> <<"g">>, prerequisites |-> <<>>]
          [] k = "N" -> [name |-> "N", inputs |-> <<"atlas", "raw", "mask">>,
                         outputs |-> <<"n">>, prerequisites |-> <<>>]
          [] k = "Q" -> [name |-> "Q", inputs |-> <<"n">>,
                         outputs |-> <<"q">>, prerequisites |-> <<"N">>]
          [] k = "R" -> [name |-> "R", inputs |-> <<"q">>,
                         outputs |-> <<"r">>, prerequisites |-> <<"Q">>]
          [] OTHER -> [name |-> "Stud", inputs |-> <<"raw">>,
                       outputs |-> <<"m_study">>, prerequisites |-> <<>>]]

\* ------------------------------------------------------------ the tree
\* tree.subjects, tree.visits, tree.sessions and the per-node lookups.
SubjectIds(t) == {x[1] : x \in t}
VisitIds(t) == {x[2] : x \in t}
SubjectSessions(t, subject_id) == {x \in t : x[1] = subject_id}
VisitSessions(t, visit_id) == {x \in t : x[2] = visit_id}

\* tree.incomplete_subjects: the subjects that miss one or more of the visits.
incomplete_subjects(t) ==
    {s \in SubjectIds(t) : \E v \in VisitIds(t) : <<s, v>> \notin t}

\* spec(output).collection: one item per node of the output's frequency; an
\* id the frequency does not have is 0.
Collection(o, t) ==
    CASE Frequency[o] = "per_session" -> {<<o, x[1], x[2]>> : x \in t}
      [] Frequency[o] = "per_subject" -> {<<o, s, 0>> : s \in SubjectIds(t)}
      [] Frequency[o] = "per_visit" -> {<<o, 0, v>> : v \in VisitIds(t)}
      [] OTHER -> {<<o, 0, 0>>}

AllItems(t) == UNION {Collection(o, t) : o \in DOMAIN Frequency}

\* ------------------------------------------------- _to_process (lines 395-491)
Returned(sessions, warnings) ==
    [kind |-> "ok", sessions |-> sessions, warnings |-> warnings, error |-> ""]

Raised(error) ==
    [kind |-> "error", sessions |-> {}, warnings |-> {}, error |-> error]

\* The warnings one output logs for the filters its frequency cannot apply.
FilterWarnings(o, subject_ids, visit_ids) ==
    (IF subject_ids # None /\ Frequency[o] \in {"per_study", "per_visit"}
     THEN {<<o, "subject_ids">>} ELSE {})
    \cup
    (IF visit_ids # None /\ Frequency[o] \in {"per_study", "per_subject"}
     THEN {<<o, "visit_ids">>} ELSE {})

\* Contribution with the visit filter of the per_session branch left out.
Contribution_NoVisitFilter(o, subject_ids, visit_ids) ==
    LET missing == {it \in Collection(o, tree) : ~exists[it]}
    IN  CASE Frequency[o] = "per_subject" ->
               UNION {SubjectSessions(tree, it[2]) :
                        it \in {m \in missing : Passes(subject_ids, m[2])}}
          [] Frequency[o] = "per_visit" ->
               UNION {VisitSessions(tree, it[3]) :
                        it \in {m \in missing : Passes(visit_ids, m[3])}}
          [] Frequency[o] = "per_session" ->
               {<<it[2], it[3]>> :
                        it \in {m \in missing : Passes(subject_ids, m[2])}}
          [] OTHER -> {}

\* Contribution with a missing per_subject item adding only the sessions of
\* the subject that pass the visit filter.
Contribution_FilteredSubject(o, subject_ids, visit_ids) ==
    LET missing == {it \in Collection(o, tree) : ~exists[it]}
    IN  CASE Frequency[o] = "per_subject" ->
               UNION {{x \in SubjectSessions(tree, it[2]) : Passes(visit_ids, x[2])} :
                        it \in {m \in missing : Passes(subject_ids, m[2])}}
          [] Frequency[o] = "per_visit" ->
               UNION {VisitSessions(tree, it[3]) :
                        it \in {m \in missing : Passes(visit_ids, m[3])}}
          [] Frequency[o] = "per_session" ->
               {<<it[2], it[3]>> :
                        it \in {m \in missing : Passes(subject_ids, m[2])
                                                /\ Passes(visit_ids, m[3])}}
          [] OTHER -> {}

\* The sessions one output of frequency per_subject, per_visit or per_session
\* adds to `sessions`.
Contribution(o, subject_ids, visit_ids) ==
    LET missing == {it \in Collection(o, tree) : ~exists[it]}
    IN  CASE Frequency[o] = "per_subject" ->
               UNION {SubjectSessions(tree, it[2]) :
                        it \in {m \in missing : Passes(subject_ids, m[2])}}
          [] Frequency[o] = "per_visit" ->
               UNION {VisitSessions(tree, it[3]) :
                        it \in {m \in missing : Passes(visit_ids, m[3])}}
          [] Frequency[o] = "per_session" ->
               {<<it[2], it[3]>> :
                        it \in {m \in missing : Passes(subject_ids, m[2])
                                                /\ Passes(visit_ids, m[3])}}
          [] OTHER -> {}

\* ToProcessLoop with a missing per_study item returning only the sessions
\* of the tree that pass the filters.
RECURSIVE ToProcessLoop_Filtered(_, _, _, _, _, _)
ToProcessLoop_Filtered(outputs, i, sessions, warnings, subject_ids, visit_ids) ==
    IF i > Len(outputs)
    THEN Returned(sessions, warnings)
    ELSE LET o == outputs[i]
             w == warnings \cup FilterWarnings(o, subject_ids, visit_ids)
         IN  IF Frequency[o] = "per_study" /\ ~exists[<<o, 0, 0>>]
             THEN Returned({x \in tree : Passes(subject_ids, x[1])
                                         /\ Passes(visit_ids, x[2])}, w)
             ELSE ToProcessLoop_Filtered(
                    outputs, i + 1,
                    sessions \cup Contribution(o, subject_ids, visit_ids),
                    w, subject_ids, visit_ids)

\* `for output in pipeline.outputs`, from output i on.
RECURSIVE ToProcessLoop(_, _, _, _, _, _)
ToProcessLoop(outputs, i, sessions, warnings, subject_ids, visit_ids) ==
    IF i > Len(outputs)
    THEN Returned(sessions, warnings)
    ELSE LET o == outputs[i]
             w == warnings \cup FilterWarnings(o, subject_ids, visit_ids)
         IN  IF Frequency[o] = "per_study" /\ ~exists[<<o, 0, 0>>]
             THEN Returned(tree, w)
             ELSE ToProcessLoop(outputs, i + 1,
                                sessions \cup Contribution(o, subject_ids, visit_ids),
                                w, subject_ids, visit_ids)

\* _to_process(pipeline, subject_ids, visit_ids, reprocess). The message of
\* the ArcanaUsageError reads self.name, which a processor does not have, and
\* `sessions` is a set, which has no extend: both end in an AttributeError.
_to_process(pipeline, subject_ids, visit_ids, reprocess) ==
    LET non_per_session ==
            {o \in Range(pipeline.outputs) : Frequency[o] # "per_session"}
    IN  IF non_per_session # {} /\ incomplete_subjects(tree) # {}
        THEN Raised("AttributeError")
        ELSE IF reprocess
        THEN Raised("AttributeError")
        ELSE ToProcessLoop(pipeline.outputs, 1, {}, {}, subject_ids, visit_ids)

\* ------------------------------------------------------- workflow nodes
\* A node is <<pipeline name, node, qualifier>>, a port is <<name, suffix, i>>.
Node(name, node) == <<name, node, "">>
Port(name) == <<name, "", 0>>
PathPort(name) == <<name, "_path", 0>>
InPort(i) == <<"in", "", i>>
Conn(src, srcport, dst, dstport) == <<src, srcport, dst, dstport>>

\* The iterators with the visit ids taken for constant as soon as one visit
\* has every subject to process.
subject_and_session_iterators_AnyVisit(name, sessions_to_process) ==
    LET subject_ids_to_process == SubjectIds(sessions_to_process)
        session_subjects ==
            [v \in VisitIds(sessions_to_process) |->
                {x[1] : x \in VisitSessions(sessions_to_process, v)}]
    IN  IF \E v \in DOMAIN session_subjects :
                session_subjects[v] = subject_ids_to_process
        THEN [name |-> name, subject_ids |-> subject_ids_to_process,
              itersource |-> FALSE,
              visit_ids |-> VisitIds(sessions_to_process),
              subject_sessions |-> {}]
        ELSE [name |-> name, subject_ids |-> subject_ids_to_process,
              itersource |-> TRUE,
              visit_ids |-> {},
              subject_sessions |-> sessions_to_process]

\* The iterators that key the visits of every subject by the first subject.
subject_and_session_iterators_OneKey(name, sessions_to_process) ==
    LET subject_ids_to_process == SubjectIds(sessions_to_process)
        session_subjects ==
            [v \in VisitIds(sessions_to_process) |->
                {x[1] : x \in VisitSessions(sessions_to_process, v)}]
        first == CHOOSE s \in subject_ids_to_process :
                    \A q \in subject_ids_to_process : s <= q
    IN  IF \A v \in DOMAIN session_subjects :
                session_subjects[v] = subject_ids_to_process
        THEN [name |-> name, subject_ids |-> subject_ids_to_process,
              itersource |-> FALSE,
              visit_ids |-> VisitIds(sessions_to_process),
              subject_sessions |-> {}]
        ELSE [name |-> name, subject_ids |-> subject_ids_to_process,
              itersource |-> TRUE,
              visit_ids |-> {},
              subject_sessions |->
                {<<x[1], y[2]>> : x \in sessions_to_process,
                                  y \in SubjectSessions(sessions_to_process, first)}]

\* Lines 302-342: the iterables of the subjects and sessions nodes. With
\* itersource the iterables of the sessions node are the dict subject_sessions,
\* kept as its (subject id, visit id) pairs.
subject_and_session_iterators(name, sessions_to_process) ==
    LET subject_ids_to_process == SubjectIds(sessions_to_process)
        session_subjects ==
            [v \in VisitIds(sessions_to_process) |->
                {x[1] : x \in VisitSessions(sessions_to_process, v)}]
    IN  IF \A v \in DOMAIN session_subjects :
                session_subjects[v] = subject_ids_to_process
        THEN [name |-> name, subject_ids |-> subject_ids_to_process,
              itersource |-> FALSE,
              visit_ids |-> VisitIds(sessions_to_process),
              subject_sessions |-> {}]
        ELSE [name |-> name, subject_ids |-> subject_ids_to_process,
              itersource |-> TRUE,
              visit_ids |-> {},
              subject_sessions |-> sessions_to_process]

\* The (subject, visit) pairs the two iterator nodes of a pipeline run over.
IteratedSessions(it) ==
    IF it.itersource
    THEN {x \in it.subject_sessions : x[1] \in it.subject_ids}
    ELSE it.subject_ids \X it.visit_ids

\* ------------------------------------------- direct calls of _to_process
\* The trees: every subject x visit session, or all but one of them.
FullTree == (1..NumSubjects) \X (1..NumVisits)
Trees == {FullTree} \cup {FullTree \ {x} : x \in FullTree}

\* The id filters a caller passes: none, or the first k ids.
SubjectFilters == {None} \cup {Some(1..k) : k \in 1..(NumSubjects - 1)}
VisitFilters == {None} \cup {Some(1..k) : k \in 1..(NumVisits - 1)}

OutputsOf(keys) == UNION {Range(PipelineDefs[k].outputs) : k \in keys}

\* The repository states: at most `most` of the items in `items` are absent,
\* or all of them are (nothing was derived yet).
Repositories(t, items, most) ==
    {[it \in AllItems(t) |-> it \notin missing] :
        missing \in {m \in SUBSET items : Cardinality(m) <= most}
                    \cup {items}}

NoResult == [kind |-> "none", sessions |-> {}, warnings |-> {}, error |-> ""]

NoIterators ==
    [name |-> "", subject_ids |-> {}, itersource |-> FALSE, visit_ids |-> {},
     subject_sessions |-> {}]

NoReport == [node |-> <<"", "", "">>, oid |-> 0]
NoRet == [kind |-> "none", report |-> NoReport, error |-> "", about |-> ""]
EmptyWorkflow ==
    [added |-> <<>>, nodes |-> {}, iterables |-> {}, connections |-> {},
     created |-> 0]
NoRun == [pipelines |-> <<>>, subject_ids |-> None, visit_ids |-> None]

\* The acquired data specs of the study, those of them that have a default,
\* and the inputs the planner's study is constructed with: the mask, which is
\* optional (src/arcana/study/base.py lines 220-221), is not
\* supplied.
Acquired == {"raw", "scan", "mask", "atlas"}
WithDefault == {"atlas"}
StudyInputs == {"raw", "scan"}

\* The study as constructed (src/arcana/study/base.py line 212): no spec is
\* bound, no tree is cached, the repository was never queried for its tree,
\* the cache was never dropped and no run call was made.
NewStudy == [inputs |-> StudyInputs, bound |-> {}, cache |-> FALSE,
             queries |-> 0, clears |-> 0, run |-> 0]

\* Study.tree without its cache: every read queries the repository.
StudyTree_NoCache(st) == [st EXCEPT !.cache = TRUE, !.queries = @ + 1]

\* The property Study.tree (src/nianalysis/study/base.py lines 138-144): the
\* repository is queried for its tree when no tree is cached, and the tree
\* that came back is kept.
StudyTree(st) ==
    IF st.cache THEN st ELSE [st EXCEPT !.cache = TRUE, !.queries = @ + 1]

\* Study.bound_spec(name), src/arcana/study/base.py lines 591-620: the input
\* the study was given under the name; for an acquired spec without input
\* and without default the ArcanaMissingDataException; otherwise the spec
\* bound to the study.
bound_spec(st, name) ==
    IF name \in st.inputs
    THEN [kind |-> "input", error |-> ""]
    ELSE IF name \in Acquired /\ name \notin WithDefault
    THEN [kind |-> "error", error |-> "ArcanaMissingDataException"]
    ELSE [kind |-> "bound", error |-> ""]

\* study.spec(name) for each of the names in a call that reads study.tree: a
\* spec that resolves to a bound spec and is not in _bound_specs is bound.
Bind(st, names) ==
    [StudyTree(st) EXCEPT
        !.bound = @ \cup {n \in names : bound_spec(st, n).kind = "bound"}]

\* No call of Study.data is made.
NoCall ==
    [variant |-> "", names |-> <<>>, subject_ids |-> None, visit_ids |-> None,
     pc |-> "idle", result |-> "", data |-> {}]

\* BaseRepository.__init__ (src/arcana/repository/base.py lines 19-20), with
\* no context entered and no call of connect or disconnect made.
NewRepository ==
    [_connection_depth |-> 0, contexts |-> 0, entered |-> 0, calls |-> <<>>]

\* The entities DaRIS numbers under one parent: the subjects of a project,
\* the studies of a subject, the files of a study.
Kinds == {"subject", "study", "file"}

\* A DaRIS server without entities and without sessions logged on.
NoServer == [entities |-> [k \in Kinds |-> {}], live |-> {}]

\* The objects the planner does not use are as constructed.
Detached ==
    /\ call = NoCall
    /\ repository = [r \in 1..NumRepositories |-> NewRepository]
    /\ daris = <<>>
    /\ server = NoServer

PlannerIdle ==
    /\ Detached
    /\ store = exists
    /\ study = NewStudy
    /\ _reprocess = "False"
    /\ run_args = NoRun
    /\ run_pc = "idle"
    /\ run_idx = 0
    /\ results = <<>>
    /\ already_connected = {}
    /\ workflow = EmptyWorkflow
    /\ stack = <<>>
    /\ ret = NoRet
    /\ log = <<>>

InitToProcess ==
    /\ tree \in Trees
    /\ \E k \in {"A", "P2", "M", "Subj", "Vis", "Stud"} :
         \E s \in SubjectFilters, v \in VisitFilters :
            /\ tp = [pipeline |-> k, subject_ids |-> s, visit_ids |-> v,
                     pc |-> "call", result |-> NoResult,
                     iterators |-> NoIterators]
            /\ exists \in Repositories(
                    tree, UNION {Collection(o, tree) : o \in OutputsOf({k})},
                    MaxAbsent)
    /\ PlannerIdle

\* sessions_to_process = self._to_process(pipeline, subject_ids=..., visit_ids=...)
ToProcessCall ==
    /\ tp.pc = "call"
    /\ tp' = [tp EXCEPT
                !.pc = "returned",
                !.result = _to_process(PipelineDefs[tp.pipeline],
                                       tp.subject_ids, tp.visit_ids, FALSE)]
    /\ study' = Bind(study, Range(PipelineDefs[tp.pipeline].outputs))
    /\ UNCHANGED <<call, repository, daris, server,
                   store, _reprocess,
                   tree, exists, run_args, run_pc, run_idx, results,
                   already_connected, workflow, stack, ret, log>>

\* subjects, sessions = self._subject_and_session_iterators(
\*     pipeline, sessions_to_process, workflow)
IteratorsCall ==
    /\ tp.pc = "returned"
    /\ tp.result.kind = "ok"
    /\ tp.result.sessions # {}
    /\ tp' = [tp EXCEPT
                !.pc = "iterated",
                !.iterators = subject_and_session_iterators(
                                PipelineDefs[tp.pipeline].name,
                                tp.result.sessions)]
    /\ UNCHANGED <<call, repository, daris, server,
                   store, study, _reprocess,
                   tree, exists, run_args, run_pc, run_idx, results,
                   already_connected, workflow, stack, ret, log>>

NextToProcess == ToProcessCall \/ IteratorsCall

SpecToProcess == InitToProcess /\ [][NextToProcess]_vars

\* ------------------------------------------------ the dict already_connected
\* already_connected[name], for a name the dict has.
Entry(connected, name) == CHOOSE e \in connected : e.name = name

Has(connected, name) == \E e \in connected : e.name = name

\* already_connected[pipeline.name] = (pipeline, report)
Register(connected, key, report) ==
    {e \in connected : e.name # PipelineDefs[key].name}
    \cup {[name |-> PipelineDefs[key].name, pipeline |-> key, report |-> report]}

\* Lookup that never finds the name: every connection builds the pipeline.
Lookup_NoCache(connected, key) == "KeyError"

\* Lookup that takes any pipeline registered under the name for the same one.
Lookup_ByName(connected, key) ==
    IF ~Has(connected, PipelineDefs[key].name) THEN "KeyError" ELSE "same"

\* Lines 119-129: what the lookup of pipeline.name finds.
Lookup(connected, key) ==
    IF ~Has(connected, PipelineDefs[key].name)
    THEN "KeyError"
    ELSE IF PipelineDefs[Entry(connected, PipelineDefs[key].name).pipeline]
                = PipelineDefs[key]
    THEN "same"
    ELSE "clash"

\* ------------------------------------------------------ the workflow
\* Lines 142-145: add_nodes and the two iterator nodes.
AddPipeline(wf, key, sessions_to_process) ==
    LET name == PipelineDefs[key].name
    IN  [wf EXCEPT
            !.added = Append(@, name),
            !.nodes = @ \cup {Node(name, "workflow"), Node(name, "inputnode"),
                              Node(name, "subjects"), Node(name, "sessions")},
            !.created = @ + 2,
            !.iterables = {i \in @ : i.name # name} \cup
                {subject_and_session_iterators(name, sessions_to_process)},
            !.connections = @ \cup
                {Conn(Node(name, "subjects"), Port("subject_id"),
                      Node(name, "sessions"), Port("subject_id"))}]

\* Lines 149-152: the scope the prerequisites are connected with.
prereq_subject_ids(sessions_to_process) == Some(SubjectIds(sessions_to_process))
prereq_visit_ids(sessions_to_process) == Some(VisitIds(sessions_to_process))

\* ConnectPrereqReports that connects the first report only.
ConnectPrereqReports_FirstOnly(wf, name, reports) ==
    IF reports = <<>>
    THEN wf
    ELSE [wf EXCEPT
            !.nodes = @ \cup {Node(name, "prereq_reports")},
            !.created = @ + 1,
            !.connections = @ \cup
                {Conn(reports[1].node, Port("subject_session_pairs"),
                      Node(name, "prereq_reports"), InPort(1)),
                 Conn(Node(name, "prereq_reports"), Port("out"),
                      Node(name, "subjects"), Port("prereq_reports"))}]

\* Lines 170-180: the merge of the prerequisites' reports.
ConnectPrereqReports(wf, name, reports) ==
    IF reports = <<>>
    THEN wf
    ELSE [wf EXCEPT
            !.nodes = @ \cup {Node(name, "prereq_reports")},
            !.created = @ + 1,
            !.connections = @ \cup
                {Conn(reports[i].node, Port("subject_session_pairs"),
                      Node(name, "prereq_reports"), InPort(i)) :
                    i \in 1..Len(reports)}
                \cup {Conn(Node(name, "prereq_reports"), Port("out"),
                           Node(name, "subjects"), Port("prereq_reports"))}]

\* The format an item is stored in (study.spec(name).format), the format the
\* pipelines take and give it in (input_spec.format, output_spec.format), and
\* the registered converters <<to, from>>.
StoredFormat ==
    [n \in Acquired \cup DOMAIN Frequency |->
        CASE n = "raw" -> "dicom"
          [] n = "scan" -> "par"
          [] n = "y" -> "nifti_gz"
          [] n \in {"z", "g"} -> "analyze"
          [] OTHER -> "nifti"]
PipelineFormat == [n \in Acquired \cup DOMAIN Frequency |-> "nifti"]
Converters == {<<"nifti", "dicom">>, <<"nifti", "nifti_gz">>,
               <<"nifti_gz", "nifti">>}

\* Lines 205 and 263: the formats differ.
Converted(n) == StoredFormat[n] # PipelineFormat[n]

\* Lines 210-211: input_spec.format.converter_from(input.format) finds one.
InputConverter(i) == <<PipelineFormat[i], StoredFormat[i]>> \in Converters

\* Lines 265-266: output.format.converter_from(output_spec.format) finds one.
OutputConverter(o) == <<StoredFormat[o], PipelineFormat[o]>> \in Converters

\* The index of the first input of `for input_spec in pipeline.inputs` that
\* raises ArcanaNoConverterError, 0 when none does.
FirstBadInput(key) ==
    LET inputs == PipelineDefs[key].inputs
        bad == {i \in 1..Len(inputs) :
                    Converted(inputs[i]) /\ ~InputConverter(inputs[i])}
    IN  IF bad = {} THEN 0 ELSE CHOOSE i \in bad : \A j \in bad : i <= j

\* The inputs the loop connects: all of them, or those before the one that
\* raises.
InputsReached(key) ==
    LET inputs == PipelineDefs[key].inputs
    IN  {inputs[i] : i \in {j \in 1..Len(inputs) :
                                FirstBadInput(key) = 0 \/ j < FirstBadInput(key)}}

\* Lines 181-236: the source and the inputs of the pipeline.
ConnectSource(wf, key) ==
    LET name == PipelineDefs[key].name
        source == Node(name, "source")
        sessions == Node(name, "sessions")
        inputnode == Node(name, "inputnode")
        inputs == InputsReached(key)
        converted == {i \in inputs : Converted(i)}
        conversion(i) == <<name, "input_conversion", i>>
    IN  [wf EXCEPT
            !.nodes = @ \cup {source} \cup {conversion(i) : i \in converted},
            !.created = @ + 1 + Cardinality(converted),
            !.connections = @ \cup
                {Conn(sessions, Port("subject_id"), inputnode, Port("subject_id")),
                 Conn(sessions, Port("visit_id"), inputnode, Port("visit_id")),
                 Conn(sessions, Port("subject_id"), source, Port("subject_id")),
                 Conn(sessions, Port("visit_id"), source, Port("visit_id"))}
                \cup {Conn(source, PathPort(i), conversion(i), Port("conv_in")) :
                        i \in converted}
                \cup {Conn(conversion(i), Port("conv_out"), inputnode, Port(i)) :
                        i \in converted}
                \cup {Conn(source, PathPort(i), inputnode, Port(i)) :
                        i \in inputs \ converted}]

\* The joins with the sink of a per_study output left unconnected.
connect_to_reports_NoProjectToken(name, sink, report, freq) ==
    LET subjects == Node(name, "subjects")
        sessions == Node(name, "sessions")
    IN  CASE freq = "per_session" ->
               {Conn(sink, Port("subject_id"),
                     Node(name, "session_outputs"), Port("subjects")),
                Conn(sink, Port("visit_id"),
                     Node(name, "session_outputs"), Port("sessions")),
                Conn(Node(name, "session_outputs"), Port("subject_session_pairs"),
                     Node(name, "subject_session_outputs"),
                     Port("subject_session_pairs")),
                Conn(Node(name, "subject_session_outputs"),
                     Port("subject_session_pairs"),
                     report, Port("subject_session_pairs"))}
          [] freq = "per_subject" ->
               {Conn(sink, Port("subject_id"),
                     Node(name, "subject_summary_outputs"), Port("subjects")),
                Conn(Node(name, "subject_summary_outputs"), Port("subjects"),
                     report, Port("subjects"))}
          [] freq = "per_visit" ->
               {Conn(sink, Port("visit_id"),
                     Node(name, "visit_summary_outputs"), Port("sessions")),
                Conn(Node(name, "visit_summary_outputs"), Port("sessions"),
                     report, Port("visits"))}
          [] OTHER -> {}

\* Lines 344-393: the joins between one sink and the report.
connect_to_reports(name, sink, report, freq) ==
    LET subjects == Node(name, "subjects")
        sessions == Node(name, "sessions")
    IN  CASE freq = "per_session" ->
               {Conn(sink, Port("subject_id"),
                     Node(name, "session_outputs"), Port("subjects")),
                Conn(sink, Port("visit_id"),
                     Node(name, "session_outputs"), Port("sessions")),
                Conn(Node(name, "session_outputs"), Port("subject_session_pairs"),
                     Node(name, "subject_session_outputs"),
                     Port("subject_session_pairs")),
                Conn(Node(name, "subject_session_outputs"),
                     Port("subject_session_pairs"),
                     report, Port("subject_session_pairs"))}
          [] freq = "per_subject" ->
               {Conn(sink, Port("subject_id"),
                     Node(name, "subject_summary_outputs"), Port("subjects")),
                Conn(Node(name, "subject_summary_outputs"), Port("subjects"),
                     report, Port("subjects"))}
          [] freq = "per_visit" ->
               {Conn(sink, Port("visit_id"),
                     Node(name, "visit_summary_outputs"), Port("sessions")),
                Conn(Node(name, "visit_summary_outputs"), Port("sessions"),
                     report, Port("visits"))}
          [] OTHER ->
               {Conn(sink, Port("project_id"), report, Port("project"))}

\* `for freq, outputs in pipeline._outputs.items()` takes the frequencies in
\* this order and the outputs of one frequency in the order of
\* pipeline.outputs: the place of an output in the two loops.
FreqRank(freq) ==
    CASE freq = "per_session" -> 1
      [] freq = "per_subject" -> 2
      [] freq = "per_visit" -> 3
      [] OTHER -> 4

OutputRank(key, o) ==
    LET outputs == PipelineDefs[key].outputs
    IN  10 * FreqRank(Frequency[o])
            + (CHOOSE i \in 1..Len(outputs) : outputs[i] = o)

\* The first output that raises ArcanaNoConverterError, "" when none does.
FirstBadOutput(key) ==
    LET bad == {o \in Range(PipelineDefs[key].outputs) :
                    Converted(o) /\ ~OutputConverter(o)}
    IN  IF bad = {}
        THEN ""
        ELSE CHOOSE o \in bad :
                \A q \in bad : OutputRank(key, o) <= OutputRank(key, q)

\* The outputs the loops connect: all of them, or those before the one that
\* raises.
OutputsReached(key) ==
    {o \in Range(PipelineDefs[key].outputs) :
        \/ FirstBadOutput(key) = ""
        \/ OutputRank(key, o) < OutputRank(key, FirstBadOutput(key))}

\* Lines 242-297: the sink of one frequency, its outputs and its joins, as
\* far as the loops get.
SinkConnections(key, freq) ==
    LET name == PipelineDefs[key].name
        sink == <<name, "sink", freq>>
        sessions == Node(name, "sessions")
        outputnode == <<name, "outputnode", freq>>
        conversion(o) == <<"", "output_conversion", o>>
        bad == FirstBadOutput(key)
        started == bad = "" \/ FreqRank(freq) <= FreqRank(Frequency[bad])
        finished == bad = "" \/ FreqRank(freq) < FreqRank(Frequency[bad])
        outputs == {o \in OutputsReached(key) : Frequency[o] = freq}
    IN  IF ~started
        THEN {}
        ELSE (IF freq \in {"per_session", "per_subject"}
              THEN {Conn(sessions, Port("subject_id"), sink, Port("subject_id"))}
              ELSE {})
             \cup
             (IF freq \in {"per_session", "per_visit"}
              THEN {Conn(sessions, Port("visit_id"), sink, Port("visit_id"))}
              ELSE {})
             \cup {Conn(outputnode, Port(o), sink, PathPort(o)) :
                        o \in {q \in outputs : ~Converted(q)}}
             \cup {Conn(outputnode, Port(o), conversion(o), Port("conv_in")) :
                        o \in {q \in outputs : Converted(q)}}
             \cup {Conn(conversion(o), Port("conv_out"), sink, PathPort(o)) :
                        o \in {q \in outputs : Converted(q)}}
             \cup (IF finished
                   THEN connect_to_reports(name, sink, Node(name, "report"), freq)
                   ELSE {})

\* Lines 237-297: the report node and the sinks of every output frequency.
ConnectSinks(wf, key) ==
    LET name == PipelineDefs[key].name
        freqs == {Frequency[o] : o \in Range(PipelineDefs[key].outputs)}
        conns == UNION {SinkConnections(key, f) : f \in freqs}
    IN  [wf EXCEPT
            !.nodes = @ \cup {Node(name, "report")}
                        \cup {c[1] : c \in conns} \cup {c[3] : c \in conns},
            !.created = @ + 1
                + Cardinality({o \in OutputsReached(key) : Converted(o)}),
            !.connections = @ \cup conns]

\* The PipelineReport node a connection creates: the node and which creation
\* of the workflow it was.
NewReport(wf, key) ==
    [node |-> Node(PipelineDefs[key].name, "report"), oid |-> wf.created]

\* --------------------------------------- _connect_to_repository (lines 114-300)
Frame(key, subject_ids, visit_ids) ==
    [pipeline |-> key, subject_ids |-> subject_ids, visit_ids |-> visit_ids,
     pc |-> "start", sessions_to_process |-> {}, reports |-> <<>>,
     prereq_idx |-> 1]

Top == stack[Len(stack)]
Callers == SubSeq(stack, 1, Len(stack) - 1)
ReplaceTop(frame) == [stack EXCEPT ![Len(stack)] = frame]

\* A call is at its first line. pipeline.assert_connected() (line 131) passes
\* for every pipeline of the study: their inputs and outputs are all wired.
Entering == stack # <<>> /\ ret.kind = "none" /\ Top.pc = "start"

ToProcessOf(frame) ==
    _to_process(PipelineDefs[frame.pipeline], frame.subject_ids,
                frame.visit_ids, FALSE)

\* Lines 120-122: the pipeline is registered already: its report is returned.
ReturnCached ==
    /\ Entering
    /\ Lookup(already_connected, Top.pipeline) = "same"
    /\ ret' = [kind |-> "report",
               report |-> Entry(already_connected,
                                PipelineDefs[Top.pipeline].name).report,
               error |-> "", about |-> ""]
    /\ stack' = Callers
    /\ UNCHANGED <<call, repository, daris, server,
                   store, study, _reprocess,
                   tree, exists, tp, run_args, run_pc, run_idx, results,
                   already_connected, workflow, log>>

\* Lines 123-127: another pipeline is registered under the name.
RaiseNameClash ==
    /\ Entering
    /\ Lookup(already_connected, Top.pipeline) = "clash"
    /\ ret' = [kind |-> "error", report |-> NoReport, error |-> "ArcanaError",
               about |-> PipelineDefs[Top.pipeline].name]
    /\ stack' = Callers
    /\ UNCHANGED <<call, repository, daris, server,
                   store, study, _reprocess,
                   tree, exists, tp, run_args, run_pc, run_idx, results,
                   already_connected, workflow, log>>

\* Lines 134-135: _to_process raises.
RaiseFromToProcess ==
    /\ Entering
    /\ Lookup(already_connected, Top.pipeline) = "KeyError"
    /\ ToProcessOf(Top).kind = "error"
    /\ ret' = [kind |-> "error", report |-> NoReport,
               error |-> ToProcessOf(Top).error, about |-> ""]
    /\ stack' = Callers
    /\ study' = Bind(study, Range(PipelineDefs[Top.pipeline].outputs))
    /\ UNCHANGED <<call, repository, daris, server,
                   store, _reprocess,
                   tree, exists, tp, run_args, run_pc, run_idx, results,
                   already_connected, workflow, log>>

\* Lines 136-139: nothing to process.
RaiseNoRunRequired ==
    /\ Entering
    /\ Lookup(already_connected, Top.pipeline) = "KeyError"
    /\ ToProcessOf(Top).kind = "ok"
    /\ ToProcessOf(Top).sessions = {}
    /\ ret' = [kind |-> "NoRunRequired", report |-> NoReport, error |-> "",
               about |-> ""]
    /\ stack' = Callers
    /\ study' = Bind(study, Range(PipelineDefs[Top.pipeline].outputs))
    /\ UNCHANGED <<call, repository, daris, server,
                   store, _reprocess,
                   tree, exists, tp, run_args, run_pc, run_idx, results,
                   already_connected, workflow, log>>

\* AddToWorkflow that marks the outputs of the sessions it plans as existing,
\* the way Study.data does after a run (src/arcana/study/base.py lines
\* 518-519).
AddToWorkflow_MarksPlanned ==
    /\ Entering
    /\ Lookup(already_connected, Top.pipeline) = "KeyError"
    /\ ToProcessOf(Top).kind = "ok"
    /\ ToProcessOf(Top).sessions # {}
    /\ workflow' = AddPipeline(workflow, Top.pipeline, ToProcessOf(Top).sessions)
    /\ stack' = ReplaceTop([Top EXCEPT
                              !.pc = "prereqs",
                              !.sessions_to_process = ToProcessOf(Top).sessions])
    /\ study' = Bind(study, Range(PipelineDefs[Top.pipeline].outputs))
    /\ exists' = [it \in DOMAIN exists |->
                    \/ exists[it]
                    \/ /\ it[1] \in Range(PipelineDefs[Top.pipeline].outputs)
                       /\ <<it[2], it[3]>> \in ToProcessOf(Top).sessions]
    /\ UNCHANGED <<call, repository, daris, server,
                   store, _reprocess,
                   tree, tp, run_args, run_pc, run_idx, results,
                   already_connected, ret, log>>

\* Lines 140-145: the pipeline and its iterators join the workflow.
AddToWorkflow ==
    /\ Entering
    /\ Lookup(already_connected, Top.pipeline) = "KeyError"
    /\ ToProcessOf(Top).kind = "ok"
    /\ ToProcessOf(Top).sessions # {}
    /\ workflow' = AddPipeline(workflow, Top.pipeline, ToProcessOf(Top).sessions)
    /\ stack' = ReplaceTop([Top EXCEPT
                              !.pc = "prereqs",
                              !.sessions_to_process = ToProcessOf(Top).sessions])
    /\ study' = Bind(study, Range(PipelineDefs[Top.pipeline].outputs))
    /\ UNCHANGED <<call, repository, daris, server,
                   store, _reprocess,
                   tree, exists, tp, run_args, run_pc, run_idx, results,
                   already_connected, ret, log>>

InPrereqs == stack # <<>> /\ Top.pc = "prereqs"

\* Lines 153-162: the next prerequisite is connected with the narrowed scope.
ConnectPrereq ==
    /\ InPrereqs
    /\ ret.kind = "none"
    /\ Top.prereq_idx <= Len(PipelineDefs[Top.pipeline].prerequisites)
    /\ stack' = Append(stack,
                       Frame(PipelineDefs[Top.pipeline].prerequisites[Top.prereq_idx],
                             prereq_subject_ids(Top.sessions_to_process),
                             prereq_visit_ids(Top.sessions_to_process)))
    /\ UNCHANGED <<call, repository, daris, server,
                   store, study, _reprocess,
                   tree, exists, tp, run_args, run_pc, run_idx, results,
                   already_connected, workflow, ret, log>>

\* Line 163: reports.append(prereq_report)
PrereqReturned ==
    /\ InPrereqs
    /\ ret.kind = "report"
    /\ stack' = ReplaceTop([Top EXCEPT
                              !.reports = Append(@, ret.report),
                              !.prereq_idx = @ + 1])
    /\ ret' = NoRet
    /\ UNCHANGED <<call, repository, daris, server,
                   store, study, _reprocess,
                   tree, exists, tp, run_args, run_pc, run_idx, results,
                   already_connected, workflow, log>>

\* The handler of lines 164-169 left out: the prerequisite's NoRunRequired
\* leaves the call of the dependent too.
PrereqNoRunRequired_Reraise ==
    /\ InPrereqs
    /\ ret.kind = "NoRunRequired"
    /\ stack' = Callers
    /\ UNCHANGED <<call, repository, daris, server,
                   store, study, _reprocess,
                   tree, exists, tp, run_args, run_pc, run_idx, results,
                   already_connected, workflow, ret, log>>

\* Lines 164-169: the prerequisite needs no run, which is logged.
PrereqNoRunRequired ==
    /\ InPrereqs
    /\ ret.kind = "NoRunRequired"
    /\ stack' = ReplaceTop([Top EXCEPT !.prereq_idx = @ + 1])
    /\ log' = Append(log,
                     <<PipelineDefs[Top.pipeline].prerequisites[Top.prereq_idx],
                       Top.pipeline>>)
    /\ ret' = NoRet
    /\ UNCHANGED <<call, repository, daris, server,
                   store, study, _reprocess,
                   tree, exists, tp, run_args, run_pc, run_idx, results,
                   already_connected, workflow>>

\* Any other exception of the prerequisite handled like its NoRunRequired:
\* the dependent goes on with its next prerequisite.
PrereqRaised_Swallowed ==
    /\ InPrereqs
    /\ ret.kind = "error"
    /\ stack' = ReplaceTop([Top EXCEPT !.prereq_idx = @ + 1])
    /\ ret' = NoRet
    /\ UNCHANGED <<call, repository, daris, server,
                   store, study, _reprocess,
                   tree, exists, tp, run_args, run_pc, run_idx, results,
                   already_connected, workflow, log>>

\* Any other exception of the prerequisite leaves the caller's frame too.
PrereqRaised ==
    /\ InPrereqs
    /\ ret.kind = "error"
    /\ stack' = Callers
    /\ UNCHANGED <<call, repository, daris, server,
                   store, study, _reprocess,
                   tree, exists, tp, run_args, run_pc, run_idx, results,
                   already_connected, workflow, ret, log>>

\* The prerequisites are done: lines 170-300 are next.
PrereqsDone ==
    /\ InPrereqs
    /\ ret.kind = "none"
    /\ Top.prereq_idx > Len(PipelineDefs[Top.pipeline].prerequisites)

\* The index of the first input of the pipeline that study.source cannot
\* resolve, 0 when it resolves them all.
FirstMissingInput(st, key) ==
    LET inputs == PipelineDefs[key].inputs
        bad == {i \in 1..Len(inputs) : bound_spec(st, inputs[i]).kind = "error"}
    IN  IF bad = {} THEN 0 ELSE CHOOSE i \in bad : \A j \in bad : i <= j

\* Lines 181-189: study.source resolves the inputs of the pipeline and one of
\* them is an acquired item the study was not given: the exception is raised
\* again with the name of the pipeline. The merge of the reports is connected
\* by then.
RaiseMissingInput ==
    /\ PrereqsDone
    /\ FirstMissingInput(study, Top.pipeline) # 0
    /\ workflow' = ConnectPrereqReports(workflow,
                                        PipelineDefs[Top.pipeline].name,
                                        Top.reports)
    /\ ret' = [kind |-> "error", report |-> NoReport,
               error |-> "ArcanaMissingDataException",
               about |-> PipelineDefs[Top.pipeline].name]
    /\ stack' = Callers
    /\ study' = Bind(study,
                     {PipelineDefs[Top.pipeline].inputs[i] :
                        i \in 1..(FirstMissingInput(study, Top.pipeline) - 1)})
    /\ UNCHANGED <<call, repository, daris, server,
                   store, _reprocess,
                   tree, exists, tp, run_args, run_pc, run_idx, results,
                   already_connected, log>>

\* Lines 209-218: an input has no converter. The merge of the reports, the
\* source and the inputs before it are connected by then.
RaiseNoInputConverter ==
    /\ PrereqsDone
    /\ FirstMissingInput(study, Top.pipeline) = 0
    /\ FirstBadInput(Top.pipeline) # 0
    /\ workflow' = ConnectSource(
                        ConnectPrereqReports(workflow,
                                             PipelineDefs[Top.pipeline].name,
                                             Top.reports),
                        Top.pipeline)
    /\ ret' = [kind |-> "error", report |-> NoReport,
               error |-> "ArcanaNoConverterError",
               about |-> PipelineDefs[Top.pipeline].name]
    /\ stack' = Callers
    /\ study' = Bind(study,
                     InputsReached(Top.pipeline)
                     \cup {PipelineDefs[Top.pipeline].inputs[
                                FirstBadInput(Top.pipeline)]})
    /\ UNCHANGED <<call, repository, daris, server,
                   store, _reprocess,
                   tree, exists, tp, run_args, run_pc, run_idx, results,
                   already_connected, log>>

\* Lines 264-274: an output has no converter. The handler formats its message
\* from `input` and `input_spec`, the variables of the loop over the inputs:
\* a pipeline without inputs never bound them and the handler raises
\* UnboundLocalError in place of the ArcanaNoConverterError.
RaiseNoOutputConverter ==
    /\ PrereqsDone
    /\ FirstMissingInput(study, Top.pipeline) = 0
    /\ FirstBadInput(Top.pipeline) = 0
    /\ FirstBadOutput(Top.pipeline) # ""
    /\ workflow' = ConnectSinks(
                        ConnectSource(
                            ConnectPrereqReports(workflow,
                                                 PipelineDefs[Top.pipeline].name,
                                                 Top.reports),
                            Top.pipeline),
                        Top.pipeline)
    /\ ret' = [kind |-> "error", report |-> NoReport,
               error |-> IF PipelineDefs[Top.pipeline].inputs = <<>>
                         THEN "UnboundLocalError"
                         ELSE "ArcanaNoConverterError",
               about |-> IF PipelineDefs[Top.pipeline].inputs = <<>>
                         THEN ""
                         ELSE PipelineDefs[Top.pipeline].name]
    /\ stack' = Callers
    /\ study' = Bind(study,
                     Range(PipelineDefs[Top.pipeline].inputs)
                     \cup OutputsReached(Top.pipeline)
                     \cup {FirstBadOutput(Top.pipeline)})
    /\ UNCHANGED <<call, repository, daris, server,
                   store, _reprocess,
                   tree, exists, tp, run_args, run_pc, run_idx, results,
                   already_connected, log>>

\* Lines 170-300: the reports' merge, the source, the sinks and the report
\* are connected, the pipeline is registered and its report returned.
ConnectAndRegister ==
    /\ PrereqsDone
    /\ FirstMissingInput(study, Top.pipeline) = 0
    /\ FirstBadInput(Top.pipeline) = 0
    /\ FirstBadOutput(Top.pipeline) = ""
    /\ LET name == PipelineDefs[Top.pipeline].name
           wf == ConnectSinks(
                    ConnectSource(
                        ConnectPrereqReports(workflow, name, Top.reports),
                        Top.pipeline),
                    Top.pipeline)
           report == NewReport(wf, Top.pipeline)
       IN  /\ workflow' = wf
           /\ already_connected' = Register(already_connected, Top.pipeline, report)
           /\ ret' = [kind |-> "report", report |-> report, error |-> "",
                      about |-> ""]
    /\ stack' = Callers
    /\ study' = Bind(study,
                     Range(PipelineDefs[Top.pipeline].inputs)
                     \cup Range(PipelineDefs[Top.pipeline].outputs))
    /\ UNCHANGED <<call, repository, daris, server,
                   store, _reprocess,
                   tree, exists, tp, run_args, run_pc, run_idx, results, log>>

\* ----------------------------------------------------------- run (lines 67-112)
InLoop == run_pc = "loop" /\ stack = <<>>

\* Lines 100-104: the next pipeline of the call is connected.
RunConnect ==
    /\ InLoop
    /\ ret.kind = "none"
    /\ run_idx <= Len(run_args.pipelines)
    /\ stack' = <<Frame(run_args.pipelines[run_idx],
                        run_args.subject_ids, run_args.visit_ids)>>
    /\ UNCHANGED <<call, repository, daris, server,
                   store, study, _reprocess,
                   tree, exists, tp, run_args, run_pc, run_idx, results,
                   already_connected, workflow, ret, log>>

\* The call returned its report (which run drops).
RunConnected ==
    /\ InLoop
    /\ ret.kind = "report"
    /\ results' = Append(results, [pipeline |-> run_args.pipelines[run_idx],
                                   kind |-> "report", report |-> ret.report])
    /\ run_idx' = run_idx + 1
    /\ ret' = NoRet
    /\ UNCHANGED <<call, repository, daris, server,
                   store, study, _reprocess,
                   tree, exists, tp, run_args, run_pc, already_connected,
                   workflow, stack, log>>

\* Lines 105-108: the pipeline needs no run, which is logged.
RunNoRunRequired ==
    /\ InLoop
    /\ ret.kind = "NoRunRequired"
    /\ results' = Append(results, [pipeline |-> run_args.pipelines[run_idx],
                                   kind |-> "NoRunRequired", report |-> NoReport])
    /\ log' = Append(log, <<run_args.pipelines[run_idx], "">>)
    /\ run_idx' = run_idx + 1
    /\ ret' = NoRet
    /\ UNCHANGED <<call, repository, daris, server,
                   store, study, _reprocess,
                   tree, exists, tp, run_args, run_pc, already_connected,
                   workflow, stack>>

\* Any other exception leaves run.
RunRaised ==
    /\ InLoop
    /\ ret.kind = "error"
    /\ run_pc' = "raised"
    /\ UNCHANGED <<call, repository, daris, server,
                   store, study, _reprocess,
                   tree, exists, tp, run_args, run_idx, results,
                   already_connected, workflow, stack, ret, log>>

\* Lines 109-111: the loop is over and the repository's cached tree is
\* dropped. The specs the study has bound stay in study._bound_specs: only
\* Study.clear_binds (src/arcana/study/base.py lines 276-283) empties them,
\* and run does not call it.
ClearCache ==
    /\ InLoop
    /\ ret.kind = "none"
    /\ run_idx > Len(run_args.pipelines)
    /\ run_pc' = "run"
    /\ study' = [study EXCEPT !.cache = FALSE, !.clears = @ + 1]
    /\ UNCHANGED <<call, repository, daris, server,
                   store, _reprocess,
                   tree, exists, tp, run_args, run_idx, results,
                   already_connected, workflow, stack, ret, log>>

IterablesOf(wf, name) == CHOOSE i \in wf.iterables : i.name = name

\* The item of output o that covers session x.
Covering(o, x) ==
    CASE Frequency[o] = "per_session" -> <<o, x[1], x[2]>>
      [] Frequency[o] = "per_subject" -> <<o, x[1], 0>>
      [] Frequency[o] = "per_visit" -> <<o, 0, x[2]>>
      [] OTHER -> <<o, 0, 0>>

\* The items the sinks of the workflow write: every output of every connected
\* pipeline, for the sessions its iterator nodes run over.
Written(wf, connected) ==
    UNION {{Covering(o, x) :
                o \in Range(PipelineDefs[e.pipeline].outputs),
                x \in IteratedSessions(IterablesOf(wf, e.name))} :
            e \in connected}

\* Line 112: workflow.run(plugin=self._plugin).
RunWorkflow ==
    /\ run_pc = "run"
    /\ run_pc' = "executed"
    /\ store' = [it \in DOMAIN store |->
                    store[it] \/ it \in Written(workflow, already_connected)]
    /\ UNCHANGED <<call, repository, daris, server,
                   study, _reprocess,
                   tree, exists, tp, run_args, run_idx, results,
                   already_connected, workflow, stack, ret, log>>

\* ------------------------------------------------------------- the planner
\* The pipelines of one run call.
RunMenu == {<<"D">>, <<"B">>, <<"B", "C">>, <<"A", "B">>, <<"A", "A">>,
            <<"A", "A2">>, <<"A2", "B">>, <<"M">>,
            <<"X">>, <<"Y", "Z">>, <<"Z">>, <<"G">>, <<"N">>,
            <<"A", "Q">>, <<"R">>}

RECURSIVE Reachable(_)
Reachable(keys) ==
    LET more == keys \cup
                UNION {Range(PipelineDefs[k].prerequisites) : k \in keys}
    IN  IF more = keys THEN keys ELSE Reachable(more)

\* The trees of the planner's study: 2 subjects x 2 visits, or the same
\* without the second visit of the second subject.
PlannerTrees == {{<<1, 1>>, <<1, 2>>, <<2, 1>>, <<2, 2>>},
                 {<<1, 1>>, <<1, 2>>, <<2, 1>>}}
PlannerFilters == {None, Some({1})}

\* Lines 89-99 of the first run call on a study: the items' flags are those
\* of the repository.
RunStarts ==
    /\ Detached
    /\ store = exists
    /\ study = [NewStudy EXCEPT !.run = 1]
    /\ tp = [pipeline |-> "A", subject_ids |-> None, visit_ids |-> None,
             pc |-> "idle", result |-> NoResult, iterators |-> NoIterators]
    /\ run_pc = "loop"
    /\ run_idx = 1
    /\ results = <<>>
    /\ already_connected = {}
    /\ workflow = EmptyWorkflow
    /\ stack = <<>>
    /\ ret = NoRet
    /\ log = <<>>

Init ==
    /\ tree \in PlannerTrees
    /\ run_args \in [pipelines : RunMenu, subject_ids : PlannerFilters,
                     visit_ids : PlannerFilters]
    /\ exists \in Repositories(
            tree, UNION {Collection(o, tree) :
                            o \in OutputsOf(Reachable(Range(run_args.pipelines)))},
            MaxMissing)
    /\ _reprocess = "False"
    /\ RunStarts

Next ==
    \/ ReturnCached
    \/ RaiseNameClash
    \/ RaiseFromToProcess
    \/ RaiseNoRunRequired
    \/ AddToWorkflow
    \/ ConnectPrereq
    \/ PrereqReturned
    \/ PrereqNoRunRequired
    \/ PrereqRaised
    \/ RaiseMissingInput
    \/ RaiseNoInputConverter
    \/ RaiseNoOutputConverter
    \/ ConnectAndRegister
    \/ RunConnect
    \/ RunConnected
    \/ RunNoRunRequired
    \/ RunRaised
    \/ ClearCache
    \/ RunWorkflow

Spec == Init /\ [][Next]_vars

\* The planner is one thread of control: a step that can be taken is taken.
SpecFair == Init /\ [][Next]_vars /\ WF_vars(Next)

\* ------------------------------------------- run calls on the same study
\* The processor is built with any reprocess mode (lines 45-49) and run is
\* called on the study again after a run has executed.
ReprocessModes == {"False", "True", "all"}
StudyMenu == {<<"A">>, <<"B">>, <<"A", "B">>}

InitStudy ==
    /\ tree \in PlannerTrees
    /\ run_args \in [pipelines : StudyMenu, subject_ids : PlannerFilters,
                     visit_ids : {None}]
    /\ exists \in Repositories(
            tree, UNION {Collection(o, tree) : o \in {"a", "b"}}, MaxMissing)
    /\ _reprocess \in ReprocessModes
    /\ RunStarts

\* A further call of run (lines 89-99) on the same study and processor. The
\* specs bound in an earlier run are found in study._bound_specs with the
\* flags they were bound with; a spec bound in this run reads the tree the
\* repository is queried for anew.
RunAgain ==
    /\ run_pc = "executed"
    /\ study.run < MaxRuns
    /\ \E p \in StudyMenu : run_args' = [run_args EXCEPT !.pipelines = p]
    /\ exists' = [it \in DOMAIN exists |->
                    IF it[1] \in study.bound THEN exists[it] ELSE store[it]]
    /\ study' = [study EXCEPT !.run = @ + 1]
    /\ run_pc' = "loop"
    /\ run_idx' = 1
    /\ results' = <<>>
    /\ already_connected' = {}
    /\ workflow' = EmptyWorkflow
    /\ log' = <<>>
    /\ UNCHANGED <<call, repository, daris, server,
                   store, _reprocess, tree, tp, stack, ret>>

NextStudy ==
    \/ ReturnCached
    \/ RaiseNoRunRequired
    \/ AddToWorkflow
    \/ ConnectPrereq
    \/ PrereqReturned
    \/ PrereqNoRunRequired
    \/ ConnectAndRegister
    \/ RunConnect
    \/ RunConnected
    \/ RunNoRunRequired
    \/ ClearCache
    \/ RunWorkflow
    \/ RunAgain

SpecStudy == InitStudy /\ [][NextStudy]_vars

\* ------------------------- BaseRepository (src/arcana/repository/base.py)
\* The planner's variables while no study is planned.
IdleTp ==
    [pipeline |-> "A", subject_ids |-> None, visit_ids |-> None,
     pc |-> "idle", result |-> NoResult, iterators |-> NoIterators]

PlannerUnused ==
    /\ tree = {}
    /\ exists = <<>>
    /\ tp = IdleTp
    /\ store = exists
    /\ study = NewStudy
    /\ _reprocess = "False"
    /\ run_args = NoRun
    /\ run_pc = "idle"
    /\ run_idx = 0
    /\ results = <<>>
    /\ already_connected = {}
    /\ workflow = EmptyWorkflow
    /\ stack = <<>>
    /\ ret = NoRet
    /\ log = <<>>

\* __enter__ that tests the depth after it has counted the new context.
__enter___TestAfter(r) ==
    /\ repository[r].entered < MaxEnters
    /\ repository' = [repository EXCEPT
            ![r]._connection_depth = @ + 1,
            ![r].contexts = @ + 1,
            ![r].entered = @ + 1,
            ![r].calls = IF repository[r]._connection_depth + 1 = 0
                         THEN Append(@, "connect") ELSE @]
    /\ UNCHANGED <<planner_vars, call, daris, server>>

\* Lines 22-31: `with repository:` is entered. connect() is called when no
\* context is open, then the depth is counted up.
__enter__(r) ==
    /\ repository[r].entered < MaxEnters
    /\ repository' = [repository EXCEPT
            ![r]._connection_depth = @ + 1,
            ![r].contexts = @ + 1,
            ![r].entered = @ + 1,
            ![r].calls = IF repository[r]._connection_depth = 0
                         THEN Append(@, "connect") ELSE @]
    /\ UNCHANGED <<planner_vars, call, daris, server>>

\* Lines 33-36: the innermost open context is left, by the end of its body or
\* by an exception. The depth is counted down and disconnect() is called
\* when it is back at 0.
__exit__(r) ==
    /\ repository[r].contexts > 0
    /\ repository' = [repository EXCEPT
            ![r]._connection_depth = @ - 1,
            ![r].contexts = @ - 1,
            ![r].calls = IF repository[r]._connection_depth - 1 = 0
                         THEN Append(@, "disconnect") ELSE @]
    /\ UNCHANGED <<planner_vars, call, daris, server>>

InitRepository ==
    /\ PlannerUnused
    /\ Detached

NextRepository ==
    \/ \E r \in 1..NumRepositories : __enter__(r)
    \/ \E r \in 1..NumRepositories : __exit__(r)

SpecRepository == InitRepository /\ [][NextRepository]_vars

\* --------------------- DarisSession (src/mbi_pipelines/archive/daris.py)
\* What the last method call of a session did: whether it raised and whether
\* it had the server execute a command with the session's id.
NoCallYet == [fn |-> "", raised |-> FALSE, executed |-> FALSE]
Did(fn, raised, executed) ==
    [fn |-> fn, raised |-> raised, executed |-> executed]

NoAddition == [kind |-> "", id |-> 0]

\* DarisSession.__init__ (line 347): self._mfsid = None, kept as 0. A
\* session that is logged on holds its own number as its id.
NewSession ==
    [_mfsid |-> 0, pc |-> "out", blocks |-> 0, commands |-> 0,
     adding |-> NoAddition, added |-> {}, last |-> NoCallYet]

\* max(ids) + 1, or 1 when there is none (lines 481-487, 513-520, 556-564).
NextId(ids) ==
    IF ids = {} THEN 1 ELSE (CHOOSE m \in ids : \A i \in ids : i <= m) + 1

\* No addition of the session is between its query and its create command.
Between(s) == daris[s].adding # NoAddition

\* `with session:` is entered: __enter__ (lines 388-398) calls open (lines
\* 354-381). The logon command fails and open raises; or it gives the session
\* id, after which the token command of lines 373-376 may fail and open
\* raises with the id set. The body is entered only when open returned.
DarisEnter(s) ==
    /\ daris[s].pc = "out"
    /\ ~Between(s)
    /\ daris[s].blocks < MaxWith
    /\ \E outcome \in {"ok", "logon failed", "token failed"} :
        /\ daris' = [daris EXCEPT
                ![s]._mfsid = IF outcome = "logon failed" THEN @ ELSE s,
                ![s].pc = IF outcome = "ok" THEN "body" ELSE "out",
                ![s].blocks = @ + 1,
                ![s].last = Did("open", outcome # "ok", FALSE)]
        /\ server' = [server EXCEPT
                !.live = IF outcome = "logon failed" THEN @ ELSE @ \cup {s}]
    /\ UNCHANGED <<planner_vars, call, repository>>

\* The with-block is left, by the end of its body or by an exception in it:
\* __exit__ (lines 400-401) calls close (lines 383-386). With a session id
\* set, close runs the logoff command and then clears the id; when the
\* command fails, run raises DarisException (lines 637-642) out of close
\* before the id is cleared.
DarisExit(s) ==
    /\ daris[s].pc = "body"
    /\ ~Between(s)
    /\ IF daris[s]._mfsid = 0
       THEN /\ daris' = [daris EXCEPT
                    ![s].pc = "out",
                    ![s].last = Did("close", FALSE, FALSE)]
            /\ server' = server
       ELSE \E failed \in BOOLEAN :
            /\ daris' = [daris EXCEPT
                    ![s]._mfsid = IF failed THEN @ ELSE 0,
                    ![s].pc = "out",
                    ![s].last = Did("close", failed, TRUE)]
            /\ server' = [server EXCEPT
                    !.live = IF failed THEN @ ELSE @ \ {s}]
    /\ UNCHANGED <<planner_vars, call, repository>>

\* session.run(cmd), lines 615-651, called inside or outside a with-block:
\* without a session id it raises DarisException before anything is
\* executed; with one the command is executed, and may fail.
DarisRun(s) ==
    /\ ~Between(s)
    /\ daris[s].commands < MaxCommands
    /\ IF daris[s]._mfsid = 0
       THEN daris' = [daris EXCEPT
                ![s].commands = @ + 1,
                ![s].last = Did("run", TRUE, FALSE)]
       ELSE \E failed \in BOOLEAN :
            daris' = [daris EXCEPT
                ![s].commands = @ + 1,
                ![s].last = Did("run", failed, TRUE)]
    /\ UNCHANGED <<planner_vars, call, repository, server>>

\* The additions of the kind that are between their query and their create
\* command.
Pending(kind) == {t \in 1..NumSessions : daris[t].adding.kind = kind}

\* add_subject, add_study or add_file called without an id, up to the query
\* of lines 480-487 (512-520, 554-563): the next id is the largest id the
\* server lists under the parent, plus one. Without a session id the query
\* raises.
DarisAddQuery(s, kind) ==
    /\ ~Between(s)
    /\ Cardinality(daris[s].added) < MaxAdds
    /\ NextId(server.entities[kind]) + Cardinality(Pending(kind)) <= MaxId
    /\ daris' = [daris EXCEPT
            ![s].adding = IF daris[s]._mfsid = 0
                          THEN NoAddition
                          ELSE [kind |-> kind,
                                id |-> NextId(server.entities[kind])],
            ![s].last = Did("add_" \o kind, daris[s]._mfsid = 0,
                            daris[s]._mfsid # 0)]
    /\ UNCHANGED <<planner_vars, call, repository, server>>

\* The create command of the addition and the id the server returns for it.
\* add_subject (lines 490-497) and add_study (lines 532-539) pass the id
\* they computed as :subject-number and :study-number: when the server holds
\* an entity under it by now, it refuses the command, which raises
\* DarisException, or it takes it. add_file (lines 572-578) passes no number,
\* the computed id only names the dataset: the server numbers the file
\* itself, with the next id under the parent.
DarisAddCreate(s) ==
    /\ Between(s)
    /\ LET kind == daris[s].adding.kind
           id == IF kind = "file"
                 THEN NextId(server.entities[kind])
                 ELSE daris[s].adding.id
       IN  \E refused \in {FALSE} \cup {id \in server.entities[kind]} :
            /\ daris' = [daris EXCEPT
                    ![s].adding = NoAddition,
                    ![s].added = IF refused THEN @ ELSE @ \cup {<<kind, id>>},
                    ![s].last = Did("add_" \o kind, refused, TRUE)]
            /\ server' = [server EXCEPT
                    !.entities[kind] = IF refused THEN @ ELSE @ \cup {id}]
    /\ UNCHANGED <<planner_vars, call, repository>>

\* The entities the server holds at first: none, or one under id 1.
InitDaris ==
    /\ PlannerUnused
    /\ call = NoCall
    /\ repository = [r \in 1..NumRepositories |-> NewRepository]
    /\ daris = [s \in 1..NumSessions |-> NewSession]
    /\ \E ids \in {{}, {1}} :
            server = [entities |-> [k \in Kinds |-> ids], live |-> {}]

NextDaris ==
    \/ \E s \in 1..NumSessions : DarisEnter(s)
    \/ \E s \in 1..NumSessions : DarisExit(s)
    \/ \E s \in 1..NumSessions : DarisRun(s)
    \/ \E s \in 1..NumSessions : \E kind \in Kinds : DarisAddQuery(s, kind)
    \/ \E s \in 1..NumSessions : DarisAddCreate(s)

SpecDaris == InitDaris /\ [][NextDaris]_vars

\* ------------------------------------------------------------ Study.data
\* (src/arcana/study/base.py lines 460-538, src/nianalysis/study/base.py
\* lines 204-303)
\* Study.bound_data_spec(name) of nianalysis, lines 272-303: the input the
\* study was given under the name, else the entry of _bound_specs, else the
\* NiAnalysisNameError. __init__ (lines 118-130) binds the derived specs only,
\* so an acquired name without input is not in _bound_specs and the test of
\* `data.derived` (lines 298-302) is never reached with an acquired spec.
bound_data_spec(st, name) ==
    IF name \in st.inputs
    THEN [kind |-> "input", error |-> ""]
    ELSE IF name \notin Acquired
    THEN [kind |-> "bound", error |-> ""]
    ELSE [kind |-> "error", error |-> "NiAnalysisNameError"]

\* self.spec(name) of arcana (lines 570-589) or self.bound_data_spec(name) of
\* nianalysis.
Resolve(variant, st, name) ==
    IF variant = "arcana" THEN bound_spec(st, name)
    ELSE bound_data_spec(st, name)

\* The index of the first of the names that does not resolve, 0 when all do.
FirstUnresolved(variant, st, names) ==
    LET bad == {i \in 1..Len(names) :
                    Resolve(variant, st, names[i]).kind = "error"}
    IN  IF bad = {} THEN 0 ELSE CHOOSE i \in bad : \A j \in bad : i <= j

\* spec.pipeline: the pipeline of the study that has the derived spec as an
\* output.
PipelineOf(name) ==
    CHOOSE k \in DOMAIN PipelineDefs :
        name \in Range(PipelineDefs[k].outputs)

IsDerived(name) == name \notin Acquired

\* Lines 500-507: the pipelines of the names, in the order of the names. An
\* input and an acquired spec have no pipeline attribute and add none.
PipelinesFor(names) ==
    LET derived == SelectSeq(names, IsDerived)
    IN  [i \in 1..Len(derived) |-> PipelineOf(derived[i])]

\* spec.collection of a name: the matches of an input (one per session), the
\* items of a derived spec.
ItemsOf(name, t) ==
    IF name \in Acquired THEN {<<name, x[1], x[2]>> : x \in t}
    ELSE Collection(name, t)

FrequencyOf(name) ==
    IF name \in Acquired THEN "per_session" ELSE Frequency[name]

\* Lines 520-525 (nianalysis 248-253): the items of the name that pass the
\* ids of the call, for the ids its frequency has.
Selected(name, t, subject_ids, visit_ids) ==
    {it \in ItemsOf(name, t) :
        /\ FrequencyOf(name) \in {"per_session", "per_subject"}
            => Passes(subject_ids, it[2])
        /\ FrequencyOf(name) \in {"per_session", "per_visit"}
            => Passes(visit_ids, it[3])}

\* Lines 514-537: the data of every name is collected, every item of the
\* collection is flagged as existing (lines 518-519), and a name without
\* matching data raises the usage error.
Collect ==
    LET names == Range(call.names)
        empty == {n \in names :
                    Selected(n, tree, call.subject_ids, call.visit_ids) = {}}
    IN  /\ call' = [call EXCEPT
                !.pc = IF empty = {} THEN "returned" ELSE "raised",
                !.result = IF empty = {} THEN ""
                           ELSE IF call.variant = "arcana"
                           THEN "ArcanaUsageError"
                           ELSE "NiAnalysisUsageError",
                !.data = IF empty # {} THEN {}
                         ELSE UNION {Selected(n, tree, call.subject_ids,
                                              call.visit_ids) : n \in names}]
        /\ exists' = [it \in DOMAIN exists |-> exists[it] \/ it[1] \in names]

\* A name of the call does not resolve: the exception of spec(name) is not
\* an AttributeError and leaves data (lines 500-507; nianalysis line 234).
DataRaise ==
    /\ call.pc = "resolve"
    /\ FirstUnresolved(call.variant, study, call.names) # 0
    /\ LET bad == FirstUnresolved(call.variant, study, call.names)
       IN  /\ call' = [call EXCEPT
                    !.pc = "raised",
                    !.result = Resolve(call.variant, study,
                                       call.names[bad]).error]
           /\ study' = Bind(study, {call.names[i] : i \in 1..(bad - 1)})
    /\ UNCHANGED <<repository, daris, server,
                   store, _reprocess, tree, exists, tp, run_args, run_pc,
                   run_idx, results, already_connected, workflow, stack, ret,
                   log>>

\* No name of the call has a pipeline (line 509; nianalysis lines 235-236):
\* the data is collected without a call of run.
DataDirect ==
    /\ call.pc = "resolve"
    /\ FirstUnresolved(call.variant, study, call.names) = 0
    /\ PipelinesFor(call.names) = <<>>
    /\ study' = Bind(study, Range(call.names))
    /\ Collect
    /\ UNCHANGED <<repository, daris, server,
                   store, _reprocess, tree, tp, run_args, run_pc,
                   run_idx, results, already_connected, workflow, stack, ret,
                   log>>

\* data that calls run for the pipeline of its first derived name only.
DataRun_FirstOnly ==
    /\ call.pc = "resolve"
    /\ FirstUnresolved(call.variant, study, call.names) = 0
    /\ PipelinesFor(call.names) # <<>>
    /\ call' = [call EXCEPT !.pc = "running"]
    /\ study' = [Bind(study, Range(call.names)) EXCEPT !.run = @ + 1]
    /\ run_args' = [pipelines |-> <<PipelinesFor(call.names)[1]>>,
                    subject_ids |-> call.subject_ids,
                    visit_ids |-> call.visit_ids]
    /\ run_pc' = "loop"
    /\ run_idx' = 1
    /\ UNCHANGED <<repository, daris, server,
                   store, _reprocess, tree, exists, tp, results,
                   already_connected, workflow, stack, ret, log>>

\* Lines 508-512: the pipelines of all derived names are passed to one call
\* of processor.run, with the ids of the call.
DataRun ==
    /\ call.pc = "resolve"
    /\ FirstUnresolved(call.variant, study, call.names) = 0
    /\ PipelinesFor(call.names) # <<>>
    /\ call' = [call EXCEPT !.pc = "running"]
    /\ study' = [Bind(study, Range(call.names)) EXCEPT !.run = @ + 1]
    /\ run_args' = [pipelines |-> PipelinesFor(call.names),
                    subject_ids |-> call.subject_ids,
                    visit_ids |-> call.visit_ids]
    /\ run_pc' = "loop"
    /\ run_idx' = 1
    /\ UNCHANGED <<repository, daris, server,
                   store, _reprocess, tree, exists, tp, results,
                   already_connected, workflow, stack, ret, log>>

\* run raised: the exception leaves data.
DataRunRaised ==
    /\ call.pc = "running"
    /\ run_pc = "raised"
    /\ call' = [call EXCEPT !.pc = "raised", !.result = ret.error]
    /\ UNCHANGED <<repository, daris, server, planner_vars>>

\* run returned, with pipelines that needed no run logged by it (processor
\* lines 105-108): the data is collected.
DataCollect ==
    /\ call.pc = "running"
    /\ run_pc = "executed"
    /\ Collect
    /\ UNCHANGED <<repository, daris, server,
                   store, study, _reprocess, tree, tp, run_args, run_pc,
                   run_idx, results, already_connected, workflow, stack, ret,
                   log>>

\* The calls of data: with an input, an acquired spec that has a default, a
\* derived spec, two derived specs, an input and a derived spec, a derived
\* spec whose pipeline reads the acquired mask the study was not given, and
\* the mask itself. The nianalysis study is asked for an input and for the
\* mask.
DataMenu ==
    [arcana |-> {<<"raw">>, <<"atlas">>, <<"a">>, <<"a", "b">>,
                 <<"raw", "b">>, <<"n">>, <<"mask">>, <<"raw", "mask">>},
     nianalysis |-> {<<"raw">>, <<"mask">>}]

InitData ==
    /\ tree \in PlannerTrees
    /\ \E variant \in DOMAIN DataMenu :
        \E names \in DataMenu[variant] :
        \E subject_ids \in PlannerFilters, visit_ids \in PlannerFilters :
            /\ call = [variant |-> variant, names |-> names,
                       subject_ids |-> subject_ids, visit_ids |-> visit_ids,
                       pc |-> "resolve", result |-> "", data |-> {}]
            /\ exists \in Repositories(
                    tree,
                    UNION {Collection(o, tree) :
                            o \in OutputsOf(Reachable(
                                    Range(PipelinesFor(names))))},
                    MaxMissing)
    /\ repository = [r \in 1..NumRepositories |-> NewRepository]
    /\ daris = <<>>
    /\ server = NoServer
    /\ tp = IdleTp
    /\ store = exists
    /\ study = NewStudy
    /\ _reprocess = "False"
    /\ run_args = NoRun
    /\ run_pc = "idle"
    /\ run_idx = 0
    /\ results = <<>>
    /\ already_connected = {}
    /\ workflow = EmptyWorkflow
    /\ stack = <<>>
    /\ ret = NoRet
    /\ log = <<>>

NextData ==
    \/ DataRaise
    \/ DataDirect
    \/ DataRun
    \/ ReturnCached
    \/ RaiseNoRunRequired
    \/ AddToWorkflow
    \/ ConnectPrereq
    \/ PrereqReturned
    \/ PrereqNoRunRequired
    \/ RaiseMissingInput
    \/ ConnectAndRegister
    \/ RunConnect
    \/ RunConnected
    \/ RunNoRunRequired
    \/ RunRaised
    \/ ClearCache
    \/ RunWorkflow
    \/ DataRunRaised
    \/ DataCollect

SpecData == InitData /\ [][NextData]_vars

\* ================================================================ claims
\* Whether an item of an output lies in the scope of the two filters, as the
\* output's frequency lets them apply.
InScope(it, subject_ids, visit_ids) ==
    CASE Frequency[it[1]] = "per_session" ->
            Passes(subject_ids, it[2]) /\ Passes(visit_ids, it[3])
      [] Frequency[it[1]] = "per_subject" -> Passes(subject_ids, it[2])
      [] Frequency[it[1]] = "per_visit" -> Passes(visit_ids, it[3])
      [] OTHER -> TRUE

AllOutputsExist(key, subject_ids, visit_ids) ==
    \A o \in Range(PipelineDefs[key].outputs) :
        \A it \in Collection(o, tree) :
            InScope(it, subject_ids, visit_ids) => exists[it]

\* The tree lets the pipeline be processed: all its outputs are per_session,
\* or no subject misses a visit.
Regular(key) ==
    \/ \A o \in Range(PipelineDefs[key].outputs) : Frequency[o] = "per_session"
    \/ incomplete_subjects(tree) = {}

NothingAdded ==
    /\ ret'.kind = "NoRunRequired"
    /\ stack' = Callers
    /\ workflow' = workflow
    /\ already_connected' = already_connected

\* C1 as claimed: whenever every output of P exists at every node in scope,
\* _to_process(P) is empty and the connection of P signals NoRunRequired with
\* nothing added to the workflow.
C1_Original ==
    [][(Entering /\ AllOutputsExist(Top.pipeline, Top.subject_ids, Top.visit_ids))
        => /\ ToProcessOf(Top).kind = "ok"
           /\ ToProcessOf(Top).sessions = {}
           /\ NothingAdded]_vars

\* C1 amended: the same, for a pipeline whose name is not registered yet and
\* which the tree lets be processed (otherwise the registered report is
\* returned, or _to_process raises).
C1_NoRunRequired ==
    [][(/\ Entering
        /\ AllOutputsExist(Top.pipeline, Top.subject_ids, Top.visit_ids)
        /\ ~Has(already_connected, PipelineDefs[Top.pipeline].name)
        /\ Regular(Top.pipeline))
        => /\ ToProcessOf(Top).kind = "ok"
           /\ ToProcessOf(Top).sessions = {}
           /\ NothingAdded]_vars

C1_Witness ==
    /\ run_idx = 1
    /\ stack = <<>>
    /\ ret.kind = "NoRunRequired"
    /\ run_args.pipelines[1] = "M"
    /\ run_args.subject_ids # None
    /\ \E it \in DOMAIN exists : ~exists[it]
    /\ AllOutputsExist("M", run_args.subject_ids, run_args.visit_ids)
    /\ workflow = EmptyWorkflow

TpOutputs == Range(PipelineDefs[tp.pipeline].outputs)

\* C2: for a pipeline whose outputs are all per_session, _to_process returns
\* exactly the sessions that pass both filters and lack at least one output.
C2_PerSession ==
    (tp.pc = "returned" /\ \A o \in TpOutputs : Frequency[o] = "per_session")
    => /\ tp.result.kind = "ok"
       /\ tp.result.sessions =
            {x \in tree : /\ Passes(tp.subject_ids, x[1])
                          /\ Passes(tp.visit_ids, x[2])
                          /\ \E o \in TpOutputs : ~exists[<<o, x[1], x[2]>>]}

\* 2 subjects x 2 visits, only subject 1 / visit 2 has the output: the other
\* three sessions are returned.
C2_Witness ==
    /\ tp.pc = "returned"
    /\ tp.pipeline = "A"
    /\ tp.subject_ids = None /\ tp.visit_ids = None
    /\ tree = {<<1, 1>>, <<1, 2>>, <<2, 1>>, <<2, 2>>}
    /\ \A x \in tree : exists[<<"a", x[1], x[2]>>] <=> x = <<1, 2>>
    /\ tp.result.sessions = {<<1, 1>>, <<2, 1>>, <<2, 2>>}

PerStudyMissing ==
    \E o \in TpOutputs : Frequency[o] = "per_study" /\ ~exists[<<o, 0, 0>>]

\* C3 as claimed: with a per_study output missing, _to_process returns every
\* session of the tree whatever the filters.
C3_Original ==
    (tp.pc = "returned" /\ PerStudyMissing)
    => tp.result.kind = "ok" /\ tp.result.sessions = tree

\* C3 amended: the same on a tree in which no subject misses a visit.
C3_PerStudy ==
    (tp.pc = "returned" /\ PerStudyMissing /\ incomplete_subjects(tree) = {})
    => tp.result.kind = "ok" /\ tp.result.sessions = tree

C3_Witness ==
    /\ tp.pc = "returned"
    /\ PerStudyMissing
    /\ tp.subject_ids # None /\ tp.visit_ids # None
    /\ \E o \in TpOutputs : Frequency[o] = "per_session"
    /\ tp.result.sessions = tree
    /\ Cardinality(tree) > 1

\* Whether output o, by the rule of its frequency, has session x processed.
Contributes(o, x) ==
    CASE Frequency[o] = "per_subject" ->
            ~exists[<<o, x[1], 0>>] /\ Passes(tp.subject_ids, x[1])
      [] Frequency[o] = "per_visit" ->
            ~exists[<<o, 0, x[2]>>] /\ Passes(tp.visit_ids, x[2])
      [] Frequency[o] = "per_session" ->
            /\ ~exists[<<o, x[1], x[2]>>]
            /\ Passes(tp.subject_ids, x[1]) /\ Passes(tp.visit_ids, x[2])
      [] OTHER -> FALSE

UnionOfOutputs ==
    /\ tp.result.kind = "ok"
    /\ tp.result.sessions = {x \in tree : \E o \in TpOutputs : Contributes(o, x)}

\* C4 as claimed: with no per_study output missing, the result is the union
\* of what the outputs contribute.
C4_Original ==
    (tp.pc = "returned" /\ ~PerStudyMissing) => UnionOfOutputs

\* C4 amended: the same on a tree the pipeline can be processed on.
C4_Union ==
    (tp.pc = "returned" /\ ~PerStudyMissing /\ Regular(tp.pipeline))
    => UnionOfOutputs

\* m_sess, m_subj and m_vis each contribute sessions the two others do not.
C4_Witness ==
    /\ tp.pc = "returned"
    /\ tp.pipeline = "M"
    /\ ~PerStudyMissing
    /\ tp.result.kind = "ok"
    /\ \A o \in {"m_sess", "m_subj", "m_vis"} :
        \E x \in tp.result.sessions :
            /\ Contributes(o, x)
            /\ \A q \in {"m_sess", "m_subj", "m_vis"} \ {o} : ~Contributes(q, x)

\* The pipeline of the call that starts is registered under its name.
SamePipelineRegistered ==
    /\ Entering
    /\ Has(already_connected, PipelineDefs[Top.pipeline].name)
    /\ PipelineDefs[Entry(already_connected,
                          PipelineDefs[Top.pipeline].name).pipeline]
            = PipelineDefs[Top.pipeline]

OtherPipelineRegistered ==
    /\ Entering
    /\ Has(already_connected, PipelineDefs[Top.pipeline].name)
    /\ PipelineDefs[Entry(already_connected,
                          PipelineDefs[Top.pipeline].name).pipeline]
            # PipelineDefs[Top.pipeline]

\* C5: a connection that builds a report returns the report it registers, and
\* every later connection of the same pipeline returns that registered report
\* and leaves the workflow as it is, whatever its scope.
C5_Idempotent ==
    [][/\ SamePipelineRegistered
          => /\ ret'.kind = "report"
             /\ ret'.report = Entry(already_connected,
                                    PipelineDefs[Top.pipeline].name).report
             /\ stack' = Callers
             /\ workflow' = workflow
             /\ already_connected' = already_connected
       /\ (InPrereqs /\ ret.kind = "none" /\ ret'.kind = "report")
          => ret'.report = Entry(already_connected',
                                 PipelineDefs[Top.pipeline].name).report]_vars

\* A is connected for the whole tree, then again as the prerequisite of B
\* with the scope of B's sessions: B's merge holds the report run got for A.
C5_Witness ==
    /\ run_args.pipelines = <<"A", "B">>
    /\ run_args.subject_ids = None
    /\ Len(results) = 2
    /\ results[1].kind = "report" /\ results[2].kind = "report"
    /\ \E x \in tree : exists[<<"b", x[1], x[2]>>]
    /\ Conn(results[1].report.node, Port("subject_session_pairs"),
            Node("B", "prereq_reports"), InPort(1)) \in workflow.connections
    /\ Entry(already_connected, "A").report = results[1].report
    /\ Len(workflow.added) = 2

\* C6: connecting a pipeline whose name is registered for another pipeline
\* raises the name-clash error and changes neither the dict nor the workflow.
C6_NameClash ==
    [][OtherPipelineRegistered
        => /\ ret'.kind = "error"
           /\ ret'.error = "ArcanaError"
           /\ stack' = Callers
           /\ workflow' = workflow
           /\ already_connected' = already_connected]_vars

C6_Witness ==
    /\ run_pc = "raised"
    /\ ret.error = "ArcanaError"
    /\ run_args.pipelines = <<"A2", "B">>
    /\ Entry(already_connected, "A").pipeline = "A2"
    /\ workflow.added = <<"A", "B">>

\* C7: the dict holds at most one entry per name, no entry is ever replaced
\* or removed, and no pipeline name is added to the workflow twice.
C7_OneEntryPerName ==
    [][/\ \A e1, e2 \in already_connected' : e1.name = e2.name => e1 = e2
       /\ \A e \in already_connected : e \in already_connected'
       /\ \A i, j \in 1..Len(workflow'.added) :
            workflow'.added[i] = workflow'.added[j] => i = j]_vars

\* The diamond: A is reached through B and through C, and was added once.
C7_Witness ==
    /\ run_pc = "executed"
    /\ run_args.pipelines = <<"D">>
    /\ Cardinality(already_connected) = 4
    /\ Len(workflow.added) = 4

\* The connections into the merge of the prerequisites' reports of a pipeline.
MergeInputs(wf, name) ==
    {c \in wf.connections : c[3] = Node(name, "prereq_reports")}

Gate(name) ==
    Conn(Node(name, "prereq_reports"), Port("out"),
         Node(name, "subjects"), Port("prereq_reports"))

\* C8: a prerequisite's report joins the caller's list when it is returned
\* and a NoRunRequired adds none; when the pipeline is connected the merge
\* gating its subjects node has one input per report of the list, each of a
\* pipeline registered before it, and there is no merge for an empty list.
C8_PrereqMerge ==
    [][/\ (InPrereqs /\ ret.kind = "report")
          => stack'[Len(stack)].reports = Append(Top.reports, ret.report)
       /\ (InPrereqs /\ ret.kind = "NoRunRequired")
          => stack'[Len(stack)].reports = Top.reports
       /\ (InPrereqs /\ ret.kind = "none" /\ ret'.kind = "report")
          => LET name == PipelineDefs[Top.pipeline].name
             IN  /\ MergeInputs(workflow', name) =
                        {Conn(Top.reports[i].node, Port("subject_session_pairs"),
                              Node(name, "prereq_reports"), InPort(i)) :
                            i \in 1..Len(Top.reports)}
                 /\ Cardinality(MergeInputs(workflow', name)) = Len(Top.reports)
                 /\ \A i \in 1..Len(Top.reports) :
                        /\ Top.reports[i].oid < ret'.report.oid
                        /\ \E e \in already_connected :
                                e.report = Top.reports[i]
                 /\ (Top.reports # <<>>) <=> (Gate(name) \in workflow'.connections)
                 /\ (Top.reports # <<>>)
                        <=> (Node(name, "prereq_reports") \in workflow'.nodes)]_vars

\* B needs A, all four sessions lack both outputs: A is registered first and
\* its report gates B's subjects node.
C8_Witness ==
    /\ run_args.pipelines = <<"B">>
    /\ run_pc = "executed"
    /\ tree = {<<1, 1>>, <<1, 2>>, <<2, 1>>, <<2, 2>>}
    /\ \A x \in tree : ~exists[<<"a", x[1], x[2]>>] /\ ~exists[<<"b", x[1], x[2]>>]
    /\ Has(already_connected, "A") /\ Has(already_connected, "B")
    /\ Entry(already_connected, "A").report.oid
            < Entry(already_connected, "B").report.oid
    /\ MergeInputs(workflow, "B") =
            {Conn(Node("A", "report"), Port("subject_session_pairs"),
                  Node("B", "prereq_reports"), InPort(1))}
    /\ Gate("B") \in workflow.connections
    /\ \A i \in workflow.iterables : IteratedSessions(i) = tree

Iterables(name) == CHOOSE i \in workflow.iterables : i.name = name

\* The outputs of pipeline q that cover session x are in the repository.
OutputsExistFor(q, x) ==
    \A o \in Range(PipelineDefs[q].outputs) :
        CASE Frequency[o] = "per_session" -> exists[<<o, x[1], x[2]>>]
          [] Frequency[o] = "per_subject" -> exists[<<o, x[1], 0>>]
          [] Frequency[o] = "per_visit" -> exists[<<o, 0, x[2]>>]
          [] OTHER -> exists[<<o, 0, 0>>]

\* C9: for every registered pipeline P, every session P is planned for and
\* every prerequisite Q of P: Q's outputs for the session exist, or Q is
\* planned for the session and Q's report gates P's subjects node.
C9_PrerequisitesCovered ==
    \A e \in already_connected :
        \A x \in IteratedSessions(Iterables(e.name)) :
            \A q \in Range(PipelineDefs[e.pipeline].prerequisites) :
                \/ OutputsExistFor(q, x)
                \/ /\ Has(already_connected, PipelineDefs[q].name)
                   /\ x \in IteratedSessions(Iterables(PipelineDefs[q].name))
                   /\ \E c \in MergeInputs(workflow, e.name) :
                        c[1] = Node(PipelineDefs[q].name, "report")
                   /\ Gate(e.name) \in workflow.connections

\* C10: a prerequisite is connected with the subject and visit ids of the
\* sessions of its caller, and is planned for sessions of its caller only.
C10_NarrowedScope ==
    \A i \in 2..Len(stack) :
        /\ stack[i].subject_ids =
                Some({x[1] : x \in stack[i - 1].sessions_to_process})
        /\ stack[i].visit_ids =
                Some({x[2] : x \in stack[i - 1].sessions_to_process})
        /\ stack[i].sessions_to_process \subseteq stack[i - 1].sessions_to_process

\* The subjects that have visit v among the sessions to process.
SubjectsOfVisit(sessions, v) == {x[1] : x \in {y \in sessions : y[2] = v}}

\* Every visit id of the sessions maps to the full set of subject ids.
EveryVisitFull(sessions) ==
    \A v \in {x[2] : x \in sessions} :
        SubjectsOfVisit(sessions, v) = {x[1] : x \in sessions}

\* C11: the iterators take the visit ids as one plain list crossed with the
\* subject axis exactly when every visit id of the sessions to process maps to
\* all the subject ids to process; otherwise the sessions node takes the
\* subjects node as its itersource and its visit ids are keyed by subject id.
C11_IteratorStrategy ==
    tp.pc = "iterated"
    => LET sessions == tp.result.sessions
           it == tp.iterators
       IN  /\ it.subject_ids = {x[1] : x \in sessions}
           /\ it.itersource <=> ~EveryVisitFull(sessions)
           /\ ~it.itersource
                => /\ it.visit_ids = {x[2] : x \in sessions}
                   /\ it.subject_sessions = {}
           /\ it.itersource
                => /\ it.visit_ids = {}
                   /\ \A s \in it.subject_ids :
                        {x[2] : x \in {y \in it.subject_sessions : y[1] = s}}
                            = {x[2] : x \in {y \in sessions : y[1] = s}}

\* Subjects 1 and 2 both have visit 1 to process, only subject 1 has visit 2.
C11_Witness ==
    /\ tp.pc = "iterated"
    /\ tp.result.sessions = {<<1, 1>>, <<2, 1>>, <<1, 2>>}
    /\ tp.iterators.itersource
    /\ tp.iterators.subject_sessions = {<<1, 1>>, <<2, 1>>, <<1, 2>>}

\* C12: the (subject id, visit id) pairs the two iterator nodes run over are
\* exactly the sessions to process, under either strategy.
C12_ExactSessions ==
    tp.pc = "iterated"
    => /\ tp.result.sessions # {}
       /\ IteratedSessions(tp.iterators) = tp.result.sessions

\* Two sessions that share neither subject nor visit: the product of the two
\* axes would have four.
C12_Witness ==
    /\ tp.pc = "iterated"
    /\ tp.result.sessions = {<<1, 1>>, <<2, 2>>}
    /\ tp.iterators.itersource
    /\ IteratedSessions(tp.iterators) = {<<1, 1>>, <<2, 2>>}
    /\ tp.iterators.subject_ids \X {1, 2} # tp.result.sessions

\* The step that runs lines 170-300 for the pipeline of the top frame.
NoConverter(key) ==
    \/ \E i \in Range(PipelineDefs[key].inputs) :
            /\ StoredFormat[i] # PipelineFormat[i]
            /\ <<PipelineFormat[i], StoredFormat[i]>> \notin Converters
    \/ \E o \in Range(PipelineDefs[key].outputs) :
            /\ StoredFormat[o] # PipelineFormat[o]
            /\ <<StoredFormat[o], PipelineFormat[o]>> \notin Converters

\* The edge of input i of the pipeline in workflow wf: direct, or through
\* exactly one conversion node.
InputEdge(wf, key, i) ==
    LET name == PipelineDefs[key].name
        direct == Conn(Node(name, "source"), PathPort(i),
                       Node(name, "inputnode"), Port(i))
        steps == {n \in wf.nodes : n[2] = "input_conversion" /\ n[3] = i
                                   /\ n[1] = name}
    IN  IF StoredFormat[i] = PipelineFormat[i]
        THEN direct \in wf.connections /\ steps = {}
        ELSE /\ direct \notin wf.connections
             /\ Cardinality(steps) = 1
             /\ \A n \in steps :
                    /\ Conn(Node(name, "source"), PathPort(i), n, Port("conv_in"))
                            \in wf.connections
                    /\ Conn(n, Port("conv_out"), Node(name, "inputnode"), Port(i))
                            \in wf.connections

\* The same for output o, between the output node and the sink.
OutputEdge(wf, key, o) ==
    LET name == PipelineDefs[key].name
        outputnode == <<name, "outputnode", Frequency[o]>>
        sink == <<name, "sink", Frequency[o]>>
        direct == Conn(outputnode, Port(o), sink, PathPort(o))
        steps == {n \in wf.nodes : n[2] = "output_conversion" /\ n[3] = o}
    IN  IF StoredFormat[o] = PipelineFormat[o]
        THEN direct \in wf.connections /\ steps = {}
        ELSE /\ direct \notin wf.connections
             /\ Cardinality(steps) = 1
             /\ \A n \in steps :
                    /\ Conn(outputnode, Port(o), n, Port("conv_in"))
                            \in wf.connections
                    /\ Conn(n, Port("conv_out"), sink, PathPort(o))
                            \in wf.connections

\* C13: when lines 170-300 run for a pipeline, every input and every output
\* whose stored format is the pipeline's is wired directly and every other one
\* through exactly one conversion node; if an input or an output has no
\* registered converter the call raises ArcanaNoConverterError and the
\* pipeline is not registered.
C13_Converters ==
    [][PrereqsDone
        => LET key == Top.pipeline
               name == PipelineDefs[key].name
           IN  IF NoConverter(key)
               THEN /\ ret'.kind = "error"
                    /\ ret'.error = "ArcanaNoConverterError"
                    /\ ~Has(already_connected', name)
               ELSE /\ ret'.kind = "report"
                    /\ \A i \in Range(PipelineDefs[key].inputs) :
                            InputEdge(workflow', key, i)
                    /\ \A o \in Range(PipelineDefs[key].outputs) :
                            OutputEdge(workflow', key, o)]_vars

\* C14: with the processor built to reprocess, the connection of a requested
\* pipeline never signals NoRunRequired, and the first requested pipeline is
\* planned for every session in the scope of the two filters.
C14_ReprocessPlansAll ==
    _reprocess # "False"
    => /\ stack = <<>> => ret.kind # "NoRunRequired"
       /\ \A i \in 1..Len(results) :
            /\ results[i].kind = "report"
            /\ i = 1 => IteratedSessions(
                            IterablesOf(workflow,
                                        PipelineDefs[results[i].pipeline].name))
                        = {x \in tree : /\ Passes(run_args.subject_ids, x[1])
                                        /\ Passes(run_args.visit_ids, x[2])}

\* The sessions in the scope of a call that lack an output of its pipeline.
LackingInScope(frame) ==
    {x \in tree :
        /\ Passes(frame.subject_ids, x[1])
        /\ Passes(frame.visit_ids, x[2])
        /\ \E o \in Range(PipelineDefs[frame.pipeline].outputs) :
                ~exists[Covering(o, x)]}

\* C15: with reprocess "all" a prerequisite never signals NoRunRequired and
\* is planned for every session of the scope it is connected with; with
\* reprocess "True" a prerequisite is planned for the sessions of its scope
\* that lack an output.
C15_ReprocessCascade ==
    /\ _reprocess = "all"
        => /\ ~(InPrereqs /\ ret.kind = "NoRunRequired")
           /\ \A i \in 2..Len(stack) :
                stack[i].pc = "prereqs"
                => stack[i].sessions_to_process =
                        {x \in tree : /\ Passes(stack[i].subject_ids, x[1])
                                      /\ Passes(stack[i].visit_ids, x[2])}
    /\ _reprocess = "True"
        => \A i \in 2..Len(stack) :
                stack[i].pc = "prereqs"
                => stack[i].sessions_to_process = LackingInScope(stack[i])

\* C16: for a pipeline with an output that is not per_session, on a tree with
\* a subject that misses a visit, _to_process raises the usage error and
\* computes no session.
C16_IrregularScope ==
    (/\ tp.pc = "returned"
     /\ \E o \in TpOutputs : Frequency[o] # "per_session"
     /\ incomplete_subjects(tree) # {})
    => /\ tp.result.kind = "error"
       /\ tp.result.error = "ArcanaUsageError"
       /\ tp.result.sessions = {}

\* The call of the direct spec with the filters its pipeline cannot apply
\* left out, for the pipelines whose outputs all have one frequency.
WithoutInapplicable ==
    CASE tp.pipeline = "Subj" ->
            _to_process(PipelineDefs["Subj"], tp.subject_ids, None, FALSE)
      [] tp.pipeline = "Vis" ->
            _to_process(PipelineDefs["Vis"], None, tp.visit_ids, FALSE)
      [] OTHER ->
            _to_process(PipelineDefs[tp.pipeline], tp.subject_ids,
                        tp.visit_ids, FALSE)

\* C17: a visit filter on a per_subject output and a subject filter on a
\* per_visit output change neither whether _to_process returns nor the
\* sessions the output contributes (all sessions of each missing subject or
\* visit that passes the other filter), and a call that returns has logged a
\* warning for the output and the filter.
C17_InapplicableFilter ==
    tp.pc = "returned"
    => /\ tp.result.kind = WithoutInapplicable.kind
       /\ tp.result.sessions = WithoutInapplicable.sessions
       /\ Regular(tp.pipeline) => tp.result.kind = "ok"
       /\ tp.result.kind = "ok"
            => \A o \in TpOutputs :
                /\ (Frequency[o] = "per_subject" /\ tp.visit_ids # None)
                    => <<o, "visit_ids">> \in tp.result.warnings
                /\ (Frequency[o] = "per_visit" /\ tp.subject_ids # None)
                    => <<o, "subject_ids">> \in tp.result.warnings
                /\ Frequency[o] = "per_subject"
                    => \A x \in tree :
                        (~exists[<<o, x[1], 0>>] /\ Passes(tp.subject_ids, x[1]))
                        => x \in tp.result.sessions
                /\ Frequency[o] = "per_visit"
                    => \A x \in tree :
                        (~exists[<<o, 0, x[2]>>] /\ Passes(tp.visit_ids, x[2]))
                        => x \in tp.result.sessions

\* The per_subject output of subject 1 is missing and the caller asks for
\* visit 1 only: both sessions of subject 1 are returned, with a warning.
C17_Witness ==
    /\ tp.pc = "returned"
    /\ tp.pipeline = "Subj"
    /\ tp.visit_ids = Some({1})
    /\ tp.subject_ids = None
    /\ ~exists[<<"m_subj", 1, 0>>] /\ exists[<<"m_subj", 2, 0>>]
    /\ tp.result.sessions = {<<1, 1>>, <<1, 2>>}
    /\ <<"m_subj", "visit_ids">> \in tp.result.warnings

\* C18: a NoRunRequired that reaches run moves the loop to the next pipeline;
\* one that reaches a dependent moves it to its next prerequisite, in the same
\* call; and when the loop ends every requested pipeline was attempted and
\* every dependent whose prerequisite needed no run is registered.
C18_NoRunRequiredContinues ==
    [][/\ (InLoop /\ ret.kind = "NoRunRequired")
            => /\ run_pc' = "loop"
               /\ run_idx' = run_idx + 1
               /\ ret'.kind = "none"
               /\ stack' = <<>>
       /\ (InPrereqs /\ ret.kind = "NoRunRequired")
            => /\ Len(stack') = Len(stack)
               /\ stack'[Len(stack)] = [Top EXCEPT !.prereq_idx = @ + 1]
               /\ ret'.kind = "none"
       /\ run_pc' = "run"
            => /\ Len(results') = Len(run_args'.pipelines)
               /\ \A i \in 1..Len(log') :
                    log'[i][2] # ""
                    => Has(already_connected', PipelineDefs[log'[i][2]].name)]_vars

\* run(B, C): B needs no run; C is attempted all the same, its prerequisite A
\* needs no run either, and C is connected and registered.
C18_Witness ==
    /\ run_pc = "executed"
    /\ run_args.pipelines = <<"B", "C">>
    /\ results[1].kind = "NoRunRequired"
    /\ results[2].kind = "report"
    /\ log = <<<<"B", "">>, <<"A", "C">>>>
    /\ Has(already_connected, "C")
    /\ ~Has(already_connected, "A")

\* C19: a connection that signals NoRunRequired leaves its pipeline
\* registered in already_connected.
C19_RegisteredOnNoRun ==
    [][(Entering /\ ret'.kind = "NoRunRequired")
        => Has(already_connected', PipelineDefs[Top.pipeline].name)]_vars

\* C20: the flags a connection reads for the outputs of its pipeline are
\* those of the repository as the last executed run left it.
C20_FreshFlags ==
    Entering
    => \A o \in Range(PipelineDefs[Top.pipeline].outputs) :
            \A it \in Collection(o, tree) : exists[it] = store[it]

\* C21: while a tree is cached no read of study.tree queries the repository;
\* a read that does query finds no tree cached, issues one query and caches
\* what it got; the flags read stay the same while the cache is kept; and the
\* queries issued never exceed the invalidations of the cache by more than
\* one, so a query is issued again only after the cache was dropped.
C21_OneQueryPerPass ==
    [][/\ study.cache => study'.queries = study.queries
       /\ study'.queries # study.queries
            => /\ ~study.cache
               /\ study'.queries = study.queries + 1
               /\ study'.cache
       /\ (study.cache /\ study'.cache) => (tree' = tree /\ exists' = exists)
       /\ study'.queries <= study'.clears + 1]_vars

\* The second run call on the study connects B and its prerequisite A: both
\* calls of _to_process read the tree, the repository was queried once in
\* this pass and once in the pass before.
C21_Witness ==
    /\ study.run = 2
    /\ run_pc = "loop"
    /\ run_args.pipelines = <<"B">>
    /\ Has(already_connected, "A") /\ Has(already_connected, "B")
    /\ study.cache
    /\ study.queries = 2
    /\ study.clears = 1

\* The steps of the pipeline registered under a name: its nodes, its
\* iterables and the connections into its nodes.
StepsOf(wf, name) ==
    [nodes |-> {n \in wf.nodes : n[1] = name},
     iterables |-> {i \in wf.iterables : i.name = name},
     connections |-> {c \in wf.connections : c[3][1] = name}]

\* C22: when a connection raises an error, neither its pipeline nor any
\* pipeline being connected above it has an entry in already_connected, and
\* the entries and the steps of the registered pipelines stay as they were;
\* the error leaves every calling connection as it came, with the dict and
\* the workflow unchanged, and leaves run.
C22_ErrorPropagates ==
    [][/\ (stack # <<>> /\ ret.kind = "none" /\ ret'.kind = "error")
            => /\ stack' = Callers
               /\ \A i \in 1..Len(stack) :
                    \A e \in already_connected' : e.pipeline # stack[i].pipeline
               /\ already_connected' = already_connected
               /\ \A e \in already_connected :
                    StepsOf(workflow', e.name) = StepsOf(workflow, e.name)
       /\ (stack # <<>> /\ ret.kind = "error")
            => /\ ret' = ret
               /\ stack' = Callers
               /\ already_connected' = already_connected
               /\ workflow' = workflow
       /\ (stack = <<>> /\ ret.kind = "error" /\ run_pc = "loop")
            => /\ run_pc' = "raised"
               /\ ret' = ret
               /\ already_connected' = already_connected
               /\ workflow' = workflow
       /\ run_pc' = "raised"
            => /\ ret'.kind = "error"
               /\ stack' = <<>>
               /\ Len(results') < Len(run_args.pipelines)]_vars

\* run(A, Q): A is registered; Q is added and connects its prerequisite N,
\* whose input mask the study was not given. The error passes Q and leaves
\* run; A is still registered, Q and N are not.
C22_Witness ==
    /\ run_pc = "raised"
    /\ run_args.pipelines = <<"A", "Q">>
    /\ ret.error = "ArcanaMissingDataException"
    /\ workflow.added = <<"A", "Q", "N">>
    /\ Has(already_connected, "A")
    /\ ~Has(already_connected, "Q") /\ ~Has(already_connected, "N")
    /\ Len(results) = 1

\* An output port of node a is connected to an input port of node b.
Linked(wf, a, b) == \E c \in wf.connections : c[1] = a /\ c[3] = b

\* The nodes a chain of connections leads to from the nodes in `from`.
RECURSIVE Downstream(_, _)
Downstream(wf, from) ==
    LET more == from \cup {c[3] : c \in {d \in wf.connections : d[1] \in from}}
    IN  IF more = from THEN from ELSE Downstream(wf, more)

\* The sink of one frequency feeds the report through the joins of that
\* frequency.
ThroughJoins(wf, name, freq) ==
    LET sink == <<name, "sink", freq>>
        report == Node(name, "report")
    IN  CASE freq = "per_session" ->
                /\ Linked(wf, sink, Node(name, "session_outputs"))
                /\ Linked(wf, Node(name, "session_outputs"),
                           Node(name, "subject_session_outputs"))
                /\ Linked(wf, Node(name, "subject_session_outputs"), report)
          [] freq = "per_subject" ->
                /\ Linked(wf, sink, Node(name, "subject_summary_outputs"))
                /\ Linked(wf, Node(name, "subject_summary_outputs"), report)
          [] freq = "per_visit" ->
                /\ Linked(wf, sink, Node(name, "visit_summary_outputs"))
                /\ Linked(wf, Node(name, "visit_summary_outputs"), report)
          [] OTHER ->
                Conn(sink, Port("project_id"), report, Port("project"))
                    \in wf.connections

\* C23: a connection that returns a newly built report has created one
\* report node for its pipeline, which the workflow did not have before and
\* which is the one it registers and returns; the pipeline has one sink per
\* frequency of its outputs, each feeds the report through the joins of its
\* frequency, and every output of the pipeline reaches the report.
C23_OneReport ==
    [][(stack # <<>> /\ Top.pc = "prereqs" /\ ret.kind = "none"
                     /\ ret'.kind = "report")
        => LET key == Top.pipeline
               name == PipelineDefs[key].name
               report == Node(name, "report")
               freqs == {Frequency[o] : o \in Range(PipelineDefs[key].outputs)}
           IN  /\ report \notin workflow.nodes
               /\ {n \in workflow'.nodes : n[1] = name /\ n[2] = "report"}
                        = {report}
               /\ ret'.report.node = report
               /\ Entry(already_connected', name).report = ret'.report
               /\ {n[3] : n \in {m \in workflow'.nodes :
                                    m[1] = name /\ m[2] = "sink"}} = freqs
               /\ \A f \in freqs : ThroughJoins(workflow', name, f)
               /\ \A o \in Range(PipelineDefs[key].outputs) :
                    report \in Downstream(
                        workflow', {<<name, "outputnode", Frequency[o]>>})]_vars

\* run(M): the pipeline with an output of each frequency is registered with
\* its four sinks feeding its report.
C23_Witness ==
    /\ run_pc = "executed"
    /\ run_args.pipelines = <<"M">>
    /\ Has(already_connected, "M")
    /\ \A f \in {"per_session", "per_subject", "per_visit", "per_study"} :
            /\ <<"M", "sink", f>> \in workflow.nodes
            /\ Node("M", "report") \in Downstream(workflow, {<<"M", "sink", f>>})

\* C24: no step of the planning pass of run changes the flag of an item, the
\* sessions of the tree or the contents of the repository, so the flags read
\* are those of the repository from the first step of the pass to its last.
C24_PlanningReadOnly ==
    [][run_pc = "loop"
        => /\ exists' = exists
           /\ tree' = tree
           /\ store' = store
           /\ run_pc' = "run" => exists' = store']_vars

\* run(D) has planned D and its prerequisites B, C and A; the items the plan
\* is to write are still absent from the repository.
C24_Witness ==
    /\ run_pc = "run"
    /\ run_args.pipelines = <<"D">>
    /\ Len(workflow.added) = 4
    /\ exists = store
    /\ \E it \in Written(workflow, already_connected) : ~store[it]

\* C27: on every repository the depth counter is the number of open
\* contexts and is never negative; the calls of connect and disconnect
\* alternate, starting with connect, so that a connection is open exactly
\* while a context is; connect is called only by the __enter__ that takes the
\* depth from 0 to 1 and disconnect only by the __exit__ that takes it from 1
\* to 0, and each of those two steps makes its call.
C27_ConnectionDepth ==
    [][\A r \in 1..NumRepositories :
        LET old == repository[r]
            new == repository'[r]
        IN  /\ new._connection_depth = new.contexts
            /\ new._connection_depth >= 0
            /\ \A i \in 1..Len(new.calls) :
                    new.calls[i] = IF i % 2 = 1 THEN "connect" ELSE "disconnect"
            /\ (Len(new.calls) % 2 = 1) <=> (new.contexts > 0)
            /\ (new.calls # old.calls)
                <=> \/ old.contexts = 0 /\ new.contexts = 1
                    \/ old.contexts = 1 /\ new.contexts = 0
            /\ (old.contexts = 0 /\ new.contexts = 1)
                => new.calls = Append(old.calls, "connect")
            /\ (old.contexts = 1 /\ new.contexts = 0)
                => new.calls = Append(old.calls, "disconnect")]_vars

\* A repository was entered and left, then entered twice: it is connected
\* for the second time, once, with two contexts open.
C27_Witness ==
    /\ repository[1].calls = <<"connect", "disconnect", "connect">>
    /\ repository[1]._connection_depth = 2
    /\ repository[1].entered = 3

\* C28: a DarisSession executes commands only while it is open: run(cmd)
\* without a session id raises DarisException and has nothing executed, and
\* when a with-block is left the session is closed and its id is cleared.
C28_ClosedOutsideWith ==
    [][\A s \in 1..NumSessions :
        /\ (daris[s]._mfsid = 0 /\ daris'[s].commands # daris[s].commands)
            => /\ daris'[s].last = Did("run", TRUE, FALSE)
               /\ server' = server
        /\ (daris[s].pc = "body" /\ daris'[s].pc = "out")
            => /\ daris'[s]._mfsid = 0
               /\ s \notin server'.live]_vars

\* C29: an addition without an explicit id creates the entity under the
\* next available id of its parent (the largest existing id plus one, 1 when
\* there is none), an id no existing entity under the parent has, also when
\* two sessions add under the same parent concurrently, which then obtain
\* distinct ids.
C29_NextAvailableId ==
    [][\A s \in 1..NumSessions :
        (Between(s) /\ ~Between(s)')
        => LET kind == daris[s].adding.kind
               new == daris'[s].added \ daris[s].added
           IN  /\ ~daris'[s].last.raised
               /\ new = {<<kind, NextId(server.entities[kind])>>}
               /\ server'.entities[kind] = server.entities[kind]
                      \cup {NextId(server.entities[kind])}
               /\ \A t \in 1..NumSessions \ {s} :
                      new \cap daris[t].added = {}]_vars

\* C26: Study.data calls run only for names bound to derived specs. For
\* names bound to inputs no pipeline is run and the matched data is
\* returned; for derived names their pipelines are run, all in one call of
\* run, a pipeline that needs no run counts as success, and the data of the
\* names is then returned.
C26_DataRunsDerived ==
    LET derived == {n \in Range(call.names) : IsDerived(n)}
        wanted == UNION {Selected(n, tree, call.subject_ids, call.visit_ids) :
                            n \in Range(call.names)}
    IN  /\ study.run <= 1
        /\ derived = {}
            => /\ run_pc = "idle" /\ study.run = 0
               /\ workflow = EmptyWorkflow
        /\ run_pc # "idle"
            => /\ Len(run_args.pipelines) = Cardinality(derived)
               /\ \A i \in 1..Len(run_args.pipelines) :
                    \E n \in derived :
                        n \in Range(PipelineDefs[run_args.pipelines[i]].outputs)
               /\ \A n \in derived :
                    \E i \in 1..Len(run_args.pipelines) :
                        n \in Range(PipelineDefs[run_args.pipelines[i]].outputs)
        /\ call.pc = "returned"
            => /\ call.data = wanted
               /\ derived # {} => run_pc = "executed"
        /\ (call.pc = "running" /\ run_pc = "executed")
            => ENABLED DataCollect
        /\ call.pc = "raised"
            => /\ call.result # "ArcanaNoRunRequiredException"
               /\ \/ run_pc = "raised"
                  \/ run_pc = "idle"
                     /\ FirstUnresolved(call.variant, study, call.names) # 0

\* The data of two derived names is returned after one call of run in which
\* one of their pipelines needed no run.
C26_Witness ==
    /\ call.pc = "returned"
    /\ call.names = <<"a", "b">>
    /\ run_args.pipelines = <<"A", "B">>
    /\ \E i \in 1..Len(results) : results[i].kind = "NoRunRequired"
    /\ \E i \in 1..Len(results) : results[i].kind = "report"

\* C25: a name resolves to the input the study was given, otherwise to the
\* derived spec bound to the study; an acquired name without input and
\* without default fails with the missing-data error, which ends the
\* connection of the pipeline that needs it, unregistered, and carries the
\* name of that pipeline.
C25_MissingInputData ==
    LET missing == {n \in Acquired : n \notin study.inputs \cup WithDefault}
    IN  /\ call.pc \in {"running", "returned"}
            => \A n \in Range(call.names) :
                \/ n \in study.inputs
                \/ n \in study.bound /\ n \notin missing
        /\ Range(call.names) \cap missing # {}
            => /\ call.pc \in {"resolve", "raised"}
               /\ call.pc = "raised"
                    => call.result \in {"ArcanaMissingDataException",
                                        "NiAnalysisMissingDataException"}
        /\ \A e \in already_connected :
            Range(PipelineDefs[e.pipeline].inputs) \cap missing = {}
        /\ ret.error = "ArcanaMissingDataException"
            => /\ ret.kind = "error"
               /\ \E k \in DOMAIN PipelineDefs :
                    /\ PipelineDefs[k].name = ret.about
                    /\ Range(PipelineDefs[k].inputs) \cap missing # {}
               /\ \A e \in already_connected : e.name # ret.about

\* The entries that are registered in a step.
Registered(connected, connected2) == connected2 \ connected

\* C30: every call of _connect_to_repository ends, by a report, by
\* NoRunRequired or by an error; no pipeline name is added to the workflow
\* twice, diamonds included; and when a pipeline is registered each of its
\* prerequisites is registered already.
C30_TerminatesInOrder ==
    /\ (stack # <<>>) ~> (stack = <<>> /\ ret.kind # "none")
    /\ [][/\ \A i, j \in 1..Len(workflow'.added) :
                workflow'.added[i] = workflow'.added[j] => i = j
          /\ \A e \in Registered(already_connected, already_connected') :
                \A q \in Range(PipelineDefs[e.pipeline].prerequisites) :
                    Has(already_connected, PipelineDefs[q].name)]_vars

====
